---- MODULE Spec2Model ----
(***************************************************************************)
(* Budget-constrained bandits (cbandits): the four UCB policies            *)
(* (UCB_B1, UCB_B2, UCB_B2C, UCB_M1), the estimators they call and the     *)
(* GeneralCostRewardEnvironment, as state machines.                        *)
(*                                                                         *)
(* Numbers.  The program computes in float64.  The model computes in       *)
(* fixed point: a finite number x is the integer x * SCALE, and a value is *)
(* a record [t, v] with t one of "fin", "inf", "ninf", "nan", so that the  *)
(* IEEE results of numpy (x/0 = inf, 0/0 = nan, sqrt(-1) = nan, every      *)
(* comparison with nan false) and Python's own ZeroDivisionError are kept  *)
(* apart.  Products and quotients truncate to 1/SCALE.                     *)
(***************************************************************************)
EXTENDS Integers, Sequences, FiniteSets, TLC

\* Resolution of the fixed-point model of float64: 1.0 is SCALE.
SCALE == 100

\* ------------------------------------------------------------------------
\* Bounds of the model
\* ------------------------------------------------------------------------

\* Calls of update_state that are accepted between two resets.
MaxPulls == 3

\* Largest epoch (current_epoch, the n of log(n)) passed to select_arm.
MaxEpoch == 2

\* Variates the environment's generator hands out before the run is cut.
MaxDraws == 6

\* ------------------------------------------------------------------------
\* float64 values
\* ------------------------------------------------------------------------

Fin(x) == [t |-> "fin", v |-> x]
PInf == [t |-> "inf", v |-> 0]
NInf == [t |-> "ninf", v |-> 0]
NaN == [t |-> "nan", v |-> 0]
Zero == Fin(0)

\* A count or an integer literal as a float.
Num(i) == Fin(i * SCALE)

IsNaN(a) == a.t = "nan"
IsFin(a) == a.t = "fin"

Abs(i) == IF i < 0 THEN -i ELSE i

\* Quotient truncated toward zero.
Quot(n, d) ==
    IF (n >= 0) = (d > 0) THEN Abs(n) \div Abs(d) ELSE -(Abs(n) \div Abs(d))

Sgn(a) ==
    CASE a.t = "inf" -> 1
      [] a.t = "ninf" -> -1
      [] OTHER -> IF a.v > 0 THEN 1 ELSE IF a.v < 0 THEN -1 ELSE 0

XNeg(a) ==
    CASE a.t = "fin" -> Fin(-a.v)
      [] a.t = "inf" -> NInf
      [] a.t = "ninf" -> PInf
      [] OTHER -> NaN

XAdd(a, b) ==
    IF IsNaN(a) \/ IsNaN(b) THEN NaN
    ELSE IF IsFin(a) /\ IsFin(b) THEN Fin(a.v + b.v)
    ELSE IF IsFin(a) THEN b
    ELSE IF IsFin(b) THEN a
    ELSE IF a.t = b.t THEN a ELSE NaN

XSub(a, b) == XAdd(a, XNeg(b))

XMul(a, b) ==
    IF IsNaN(a) \/ IsNaN(b) THEN NaN
    ELSE IF IsFin(a) /\ IsFin(b) THEN Fin(Quot(a.v * b.v, SCALE))
    ELSE CASE Sgn(a) * Sgn(b) = 0 -> NaN
           [] Sgn(a) * Sgn(b) = 1 -> PInf
           [] OTHER -> NInf

\* numpy's true division: a zero divisor gives inf or nan, never an error.
XDiv(a, b) ==
    IF IsNaN(a) \/ IsNaN(b) THEN NaN
    ELSE IF IsFin(a) /\ IsFin(b) THEN
        IF b.v = 0
        THEN (IF a.v > 0 THEN PInf ELSE IF a.v < 0 THEN NInf ELSE NaN)
        ELSE Fin(Quot(a.v * SCALE, b.v))
    ELSE IF IsFin(b) THEN
        (IF (Sgn(a) = 1) = (b.v >= 0) THEN PInf ELSE NInf)
    ELSE IF IsFin(a) THEN Zero
    ELSE NaN

XLt(a, b) ==
    /\ ~IsNaN(a)
    /\ ~IsNaN(b)
    /\ CASE a.t = "ninf" -> b.t # "ninf"
         [] a.t = "inf" -> FALSE
         [] OTHER -> b.t = "inf" \/ (b.t = "fin" /\ a.v < b.v)

XGt(a, b) == XLt(b, a)
XGe(a, b) == ~IsNaN(a) /\ ~IsNaN(b) /\ ~XLt(a, b)

\* Python's max(a, b): b when b > a, else a (so a when either is nan).
PyMax(a, b) == IF XGt(b, a) THEN b ELSE a

RECURSIVE ISqrtIter(_, _)
ISqrtIter(n, x) ==
    LET y == (x + n \div x) \div 2
    IN IF y >= x THEN x ELSE ISqrtIter(n, y)

\* Integer square root (Newton), n >= 0.
ISqrt(n) == IF n = 0 THEN 0 ELSE ISqrtIter(n, n)

\* np.sqrt: nan below zero.
XSqrt(a) ==
    CASE a.t = "nan" -> NaN
      [] a.t = "ninf" -> NaN
      [] a.t = "inf" -> PInf
      [] OTHER -> IF a.v < 0 THEN NaN ELSE Fin(ISqrt(a.v * SCALE))

\* ln(1) .. ln(10) to 1/SCALE.
LnTable == <<0, 69, 110, 139, 161, 179, 195, 208, 220, 230>>

\* np.log(current_epoch) for the epochs the model passes (1 .. MaxEpoch).
XLog(n) == Fin((LnTable[n] * SCALE) \div 100)

RECURSIVE SeqSum(_)
SeqSum(s) == IF s = <<>> THEN 0 ELSE Head(s) + SeqSum(Tail(s))

\* np.sum of a list of finite samples.
NpSum(s) == Fin(SeqSum(s))

\* np.mean of a non-empty list of finite samples.
NpMean(s) == XDiv(NpSum(s), Num(Len(s)))

RECURSIVE Insert(_, _)
Insert(x, s) ==
    IF s = <<>> THEN <<x>>
    ELSE IF XLt(Head(s), x) THEN <<Head(s)>> \o Insert(x, Tail(s))
    ELSE <<x>> \o s

RECURSIVE SortX(_)
SortX(s) == IF s = <<>> THEN <<>> ELSE Insert(Head(s), SortX(Tail(s)))

\* np.median of a non-empty list: nan if any element is; the middle element,
\* or the mean of the two middle ones.
NpMedian(s) ==
    IF \E i \in 1..Len(s) : IsNaN(s[i]) THEN NaN
    ELSE LET srt == SortX(s)
             n == Len(s)
         IN IF n % 2 = 1 THEN srt[(n + 1) \div 2]
            ELSE XDiv(XAdd(srt[n \div 2], srt[n \div 2 + 1]), Num(2))

\* np.argmax of a non-empty array a (a[i] is the entry of index i - 1): the
\* index of the first nan if there is one, else the first index holding the
\* maximum.
NpArgmax(a) ==
    IF \E i \in 1..Len(a) : IsNaN(a[i])
    THEN (CHOOSE i \in 1..Len(a) :
            /\ IsNaN(a[i])
            /\ \A j \in 1..(i - 1) : ~IsNaN(a[j])) - 1
    ELSE (CHOOSE i \in 1..Len(a) :
            /\ \A j \in 1..Len(a) : XGe(a[i], a[j])
            /\ \A j \in 1..(i - 1) : XLt(a[j], a[i])) - 1

\* ------------------------------------------------------------------------
\* utils/estimators.py
\* ------------------------------------------------------------------------

calculate_empirical_mean(total_sum, num_pulls) ==
    IF num_pulls = 0 THEN Zero ELSE XDiv(total_sum, Num(num_pulls))

calculate_empirical_variance(sum_sq_values, total_sum, num_pulls) ==
    IF num_pulls < 2 THEN Zero
    ELSE LET mean == XDiv(total_sum, Num(num_pulls))
             mean_sq == XDiv(sum_sq_values, Num(num_pulls))
             variance == XSub(mean_sq, XMul(mean, mean))
         IN PyMax(Zero, variance)

\* "x < 1e-9" at the model's resolution: below the smallest positive value.
BelowVarFloor(x) == XLt(x, Fin(1))

calculate_lmmse_omega_empirical(sum_X, sum_R, sum_X_sq, sum_R_sq, sum_XR, num_pulls) ==
    IF num_pulls < 2 THEN Zero
    ELSE LET emp_mean_X == calculate_empirical_mean(sum_X, num_pulls)
             emp_mean_R == calculate_empirical_mean(sum_R, num_pulls)
             emp_var_X == calculate_empirical_variance(sum_X_sq, sum_X, num_pulls)
             emp_mean_XR == calculate_empirical_mean(sum_XR, num_pulls)
             emp_cov_XR == XSub(emp_mean_XR, XMul(emp_mean_X, emp_mean_R))
         IN IF BelowVarFloor(emp_var_X) THEN Zero
            ELSE XDiv(emp_cov_XR, emp_var_X)

calculate_lmmse_variance_reduction_empirical(sum_X, sum_R, sum_X_sq, sum_R_sq, sum_XR, num_pulls, omega) ==
    IF num_pulls < 2 THEN Zero
    ELSE LET emp_var_R == calculate_empirical_variance(sum_R_sq, sum_R, num_pulls)
             emp_var_X == calculate_empirical_variance(sum_X_sq, sum_X, num_pulls)
             reduced_variance == XSub(emp_var_R, XMul(XMul(omega, omega), emp_var_X))
         IN PyMax(Zero, reduced_variance)

\* ------------------------------------------------------------------------
\* Configurations the model constructs the policies with
\* ------------------------------------------------------------------------

Variants == {"UCB_B1", "UCB_B2", "UCB_B2C", "UCB_M1"}

\* config['params'] of an arm, as the policies read it.  Calm: no cost
\* variance and no bound term, so eta is 0 unless the samples differ.
\* Wild: enough variance and bound for eta to exceed any cost mean here.
Calm == [var_X |-> 0, var_R |-> 100, cov_XR |-> 0, M_X |-> 0, M_R |-> 0]
Wild == [var_X |-> 100, var_R |-> 100, cov_XR |-> 50, M_X |-> 500, M_R |-> 500]


\* algorithm_params: alpha = 2.1 and L = 2 (the defaults) with a floor of 1.5,
\* then a zero and a negative floor (the constructors check no sign or
\* range).
Tuned == [alpha |-> 210, L |-> 200, b_min_cost |-> 150, omega_bar |-> 200,
          M_X |-> 0, M_R |-> 0]
ZeroFloor == [Tuned EXCEPT !.b_min_cost = 0]
NegFloor == [Tuned EXCEPT !.b_min_cost = -100, !.alpha = -100]

\* The (arm_configs, algorithm_params) pairs the model constructs with.
Setups ==
    {[cfg |-> <<Calm, Wild>>, prm |-> Tuned],
     [cfg |-> <<Wild, Calm>>, prm |-> Tuned],
     [cfg |-> <<Calm, Wild>>, prm |-> ZeroFloor],
     [cfg |-> <<Wild>>, prm |-> NegFloor]}

\* (cost, reward) pairs passed to update_state.
Observations == {<<0, -100>>, <<0, 200>>, <<300, 200>>}

\* The algorithm_params a deployment is meant to use: a positive floor,
\* non-negative alpha and L.
InRangeParams(prm) == prm.b_min_cost > 0 /\ prm.alpha >= 0 /\ prm.L >= 0

VARIABLES
    variant,           \* the class of the policy instance
    arm_configs,       \* self.arm_configs, arms 0 .. K-1
    algorithm_params,  \* self.algorithm_params
    algo,              \* the instance's per-arm statistics
    twin,              \* a freshly constructed instance of the same class
                       \* and config, given the calls made since the last
                       \* reset of algo
    ret,               \* the last call on algo, its arguments and outcome
    trial,             \* the select/update rounds since construction or
                       \* reset, while the calls follow the driver's pattern
    env_args,          \* num_arms, arm_configs and seed given to the
                       \* environment's constructor
    env,               \* the environment: what the constructor did, the
                       \* generator, the warnings printed
    fresh,             \* an environment constructed with the same arguments
                       \* at the last reset of env and given the pulls made
                       \* since (NoEnvironment before a reset)
    shadow,            \* an environment constructed with the same arguments
                       \* and given only the pulls of env whose index is in
                       \* 0 .. K-1
    env_ret,           \* the last call on env, its argument and outcome
    peer,              \* a second instance of the same class, constructed
                       \* with the same arm_configs and algorithm_params
    run,               \* the driver's trial: its budget, its position in
                       \* the loop, the totals and what it recorded
    probe              \* the last application of an estimator or of a
                       \* sampler's arithmetic: its arguments and result

algoVars == <<variant, arm_configs, algorithm_params, algo, twin, ret, trial, peer>>
envVars == <<env_args, env, fresh, shadow, env_ret>>
vars == <<variant, arm_configs, algorithm_params, algo, twin, ret, trial, peer,
          env_args, env, fresh, shadow, env_ret, run, probe>>

num_arms == Len(arm_configs)
Arms == 0..(num_arms - 1)
Cfg(k) == arm_configs[k + 1]

alpha == Fin(algorithm_params.alpha)
L == Fin(algorithm_params.L)
b_min_cost == Fin(algorithm_params.b_min_cost)
omega_bar == Fin(algorithm_params.omega_bar)

\* __init__ of the four classes: zeroed arrays, empty sample lists.  A class
\* keeps only its own fields; the others stay at these values.
Construct(K) ==
    [arm_pulls |-> [k \in 0..(K - 1) |-> 0],
     total_costs |-> [k \in 0..(K - 1) |-> 0],
     total_rewards |-> [k \in 0..(K - 1) |-> 0],
     sum_sq_costs |-> [k \in 0..(K - 1) |-> 0],
     sum_sq_rewards |-> [k \in 0..(K - 1) |-> 0],
     arm_samples_X |-> [k \in 0..(K - 1) |-> <<>>],
     arm_samples_R |-> [k \in 0..(K - 1) |-> <<>>]]

UsesSums == variant \in {"UCB_B1", "UCB_B2"}
UsesSquares == variant = "UCB_B2"
UsesSamples == variant \in {"UCB_B2C", "UCB_M1"}

\* "var_X > 1e-9" at the model's resolution.
AboveVarFloor(x) == x >= 1

\* omega_k and V_XR of UCB_B1 and UCB_M1, computed in __init__.
omega_k(k) ==
    IF AboveVarFloor(Cfg(k).var_X)
    THEN XDiv(Fin(Cfg(k).cov_XR), Fin(Cfg(k).var_X))
    ELSE Zero

V_XR(k) ==
    PyMax(Zero,
          IF AboveVarFloor(Cfg(k).var_X)
          THEN XSub(Fin(Cfg(k).var_R),
                    XMul(XMul(omega_k(k), omega_k(k)), Fin(Cfg(k).var_X)))
          ELSE Fin(Cfg(k).var_R))

\* M_Z of UCB_B2C.
M_Z(k) == XAdd(Fin(Cfg(k).M_R), XMul(omega_bar, Fin(Cfg(k).M_X)))

\* lambda_val = 1.28 and the factors 1.4, 3.5 and 11 of the bounds.
lambda_val == 128
B_FACTOR == 140
M_GROUPS_FACTOR == 350
M_DEV_FACTOR == 11

\* max(0, emp_mean_R) / max(b_min_cost, emp_mean_X).  max keeps the Python
\* number (0, b_min_cost) unless the numpy mean is greater; a Python number
\* over a Python zero raises ZeroDivisionError, any other zero divisor is
\* numpy's and gives inf or nan.
RateRaises(emp_mean_R, emp_mean_X) ==
    /\ ~XGt(emp_mean_R, Zero)
    /\ ~XGt(emp_mean_X, b_min_cost)
    /\ b_min_cost = Zero

\* The ratio without the floor on the cost mean.
RateValueUnfloored(emp_mean_R, emp_mean_X) ==
    XDiv(PyMax(Zero, emp_mean_R), emp_mean_X)

RateValue(emp_mean_R, emp_mean_X) ==
    XDiv(PyMax(Zero, emp_mean_R), PyMax(b_min_cost, emp_mean_X))

\* theta * (lambda_val - 1) / lambda_val
GuardBound(theta) == XDiv(XMul(theta, Fin(lambda_val - SCALE)), Fin(lambda_val))

\* ------------------------------------------------------------------------
\* select_arm: the per-arm quantities of the four classes.  st is the
\* instance's statistics, k the arm, n the epoch; every arm has a pull.
\* ------------------------------------------------------------------------

T_k(st, k) == Num(st.arm_pulls[k])

\* --- UCB_B1 --------------------------------------------------------------

B1_emp_mean_X(st, k) == XDiv(Fin(st.total_costs[k]), T_k(st, k))
B1_emp_mean_R(st, k) == XDiv(Fin(st.total_rewards[k]), T_k(st, k))

B1_epsilon(st, k, n) ==
    XAdd(XDiv(XMul(XMul(XMul(Num(2), alpha), Fin(algorithm_params.M_R)), XLog(n)),
              XMul(Num(3), T_k(st, k))),
         XSqrt(XDiv(XMul(XMul(XMul(L, alpha), V_XR(k)), XLog(n)), T_k(st, k))))

B1_eta(st, k, n) ==
    XAdd(XDiv(XMul(XMul(XMul(Num(2), alpha), Fin(algorithm_params.M_X)), XLog(n)),
              XMul(Num(3), T_k(st, k))),
         XSqrt(XDiv(XMul(XMul(XMul(L, alpha), Fin(Cfg(k).var_X)), XLog(n)), T_k(st, k))))

\* --- UCB_B2 --------------------------------------------------------------

B2_emp_mean_X(st, k) ==
    calculate_empirical_mean(Fin(st.total_costs[k]), st.arm_pulls[k])
B2_emp_mean_R(st, k) ==
    calculate_empirical_mean(Fin(st.total_rewards[k]), st.arm_pulls[k])
B2_emp_var_R(st, k) ==
    calculate_empirical_variance(Fin(st.sum_sq_rewards[k]), Fin(st.total_rewards[k]),
                                 st.arm_pulls[k])
B2_emp_var_X(st, k) ==
    calculate_empirical_variance(Fin(st.sum_sq_costs[k]), Fin(st.total_costs[k]),
                                 st.arm_pulls[k])

log_n_alpha(n) == XMul(alpha, XLog(n))

\* sqrt(2 * V * log_n_alpha / T_k) + 3 * M * log_n_alpha / T_k
BernsteinTerm(V, M, st, k, n) ==
    XAdd(XSqrt(XDiv(XMul(XMul(Num(2), V), log_n_alpha(n)), T_k(st, k))),
         XDiv(XMul(XMul(Num(3), M), log_n_alpha(n)), T_k(st, k)))

B2_epsilon(st, k, n) == BernsteinTerm(B2_emp_var_R(st, k), Fin(Cfg(k).M_R), st, k, n)
B2_eta(st, k, n) == BernsteinTerm(B2_emp_var_X(st, k), Fin(Cfg(k).M_X), st, k, n)

\* --- UCB_B2C -------------------------------------------------------------

RECURSIVE SeqSumSq(_)
SeqSumSq(s) ==
    IF s = <<>> THEN 0 ELSE Quot(Head(s) * Head(s), SCALE) + SeqSumSq(Tail(s))

RECURSIVE SeqSumProd(_, _)
SeqSumProd(s, r) ==
    IF s = <<>> \/ r = <<>> THEN 0
    ELSE Quot(Head(s) * Head(r), SCALE) + SeqSumProd(Tail(s), Tail(r))

B2C_sum_X(st, k) == NpSum(st.arm_samples_X[k])
B2C_sum_R(st, k) == NpSum(st.arm_samples_R[k])
B2C_sum_X_sq(st, k) == Fin(SeqSumSq(st.arm_samples_X[k]))
B2C_sum_R_sq(st, k) == Fin(SeqSumSq(st.arm_samples_R[k]))
B2C_sum_XR(st, k) == Fin(SeqSumProd(st.arm_samples_X[k], st.arm_samples_R[k]))

B2C_emp_mean_X(st, k) == calculate_empirical_mean(B2C_sum_X(st, k), st.arm_pulls[k])
B2C_emp_mean_R(st, k) == calculate_empirical_mean(B2C_sum_R(st, k), st.arm_pulls[k])

hat_omega_k_n(st, k) ==
    calculate_lmmse_omega_empirical(B2C_sum_X(st, k), B2C_sum_R(st, k),
        B2C_sum_X_sq(st, k), B2C_sum_R_sq(st, k), B2C_sum_XR(st, k), st.arm_pulls[k])

hat_L_k_n_omega_k_n(st, k) ==
    calculate_lmmse_variance_reduction_empirical(B2C_sum_X(st, k), B2C_sum_R(st, k),
        B2C_sum_X_sq(st, k), B2C_sum_R_sq(st, k), B2C_sum_XR(st, k), st.arm_pulls[k],
        hat_omega_k_n(st, k))

B2C_emp_var_X(st, k) ==
    calculate_empirical_variance(B2C_sum_X_sq(st, k), B2C_sum_X(st, k), st.arm_pulls[k])

B2C_epsilon(st, k, n) == BernsteinTerm(hat_L_k_n_omega_k_n(st, k), M_Z(k), st, k, n)
B2C_eta(st, k, n) == BernsteinTerm(B2C_emp_var_X(st, k), Fin(Cfg(k).M_X), st, k, n)

\* --- UCB_M1 --------------------------------------------------------------

\* m without the cap at T_k.
M1_m_uncapped(st, k, n) ==
    (XMul(XMul(Fin(M_GROUPS_FACTOR), alpha), XLog(n)).v \div SCALE) + 1

\* m = max(1, min(int(floor(3.5 * alpha * log(n))) + 1, int(T_k)))
M1_m(st, k, n) ==
    LET raw == (XMul(XMul(Fin(M_GROUPS_FACTOR), alpha), XLog(n)).v \div SCALE) + 1
        capped == IF raw < st.arm_pulls[k] THEN raw ELSE st.arm_pulls[k]
    IN IF capped > 1 THEN capped ELSE 1

M1_group_size(st, k, n) == st.arm_pulls[k] \div M1_m(st, k, n)

\* samples[start_idx:end_idx] of group j (0-based), clipped like a slice.
M1_group(samples, j, group_size) ==
    LET lo == j * group_size + 1
        hi == IF (j + 1) * group_size < Len(samples)
              THEN (j + 1) * group_size ELSE Len(samples)
    IN SubSeq(samples, lo, hi)

\* _get_median_rate_estimator raises when a division of it does.
M1_rate_raises(st, k, n) ==
    LET m == M1_m(st, k, n)
        group_size == st.arm_pulls[k] \div m
    IN IF group_size = 0
       THEN RateRaises(NpMean(st.arm_samples_R[k]), NpMean(st.arm_samples_X[k]))
       ELSE \E j \in 0..(m - 1) :
               RateRaises(NpMean(M1_group(st.arm_samples_R[k], j, group_size)),
                          NpMean(M1_group(st.arm_samples_X[k], j, group_size)))

\* group_rates of _get_median_rate_estimator, in group order.
RECURSIVE M1_group_rates(_, _, _, _, _)
M1_group_rates(samples_X, samples_R, j, m, group_size) ==
    IF j >= m THEN <<>>
    ELSE <<RateValue(NpMean(M1_group(samples_R, j, group_size)),
                     NpMean(M1_group(samples_X, j, group_size)))>>
         \o M1_group_rates(samples_X, samples_R, j + 1, m, group_size)

\* group_means_X of _get_median_empirical_X_estimator, in group order.
RECURSIVE M1_group_means_X(_, _, _, _)
M1_group_means_X(samples_X, j, m, group_size) ==
    IF j >= m THEN <<>>
    ELSE <<NpMean(M1_group(samples_X, j, group_size))>>
         \o M1_group_means_X(samples_X, j + 1, m, group_size)

_get_median_rate_estimator(st, k, n) ==
    LET m == M1_m(st, k, n)
        group_size == st.arm_pulls[k] \div m
    IN IF st.arm_pulls[k] = 0 THEN Zero
       ELSE IF group_size = 0
       THEN RateValue(NpMean(st.arm_samples_R[k]), NpMean(st.arm_samples_X[k]))
       ELSE NpMedian(M1_group_rates(st.arm_samples_X[k], st.arm_samples_R[k],
                                    0, m, group_size))

_get_median_empirical_X_estimator(st, k, n) ==
    LET m == M1_m(st, k, n)
        group_size == st.arm_pulls[k] \div m
    IN IF st.arm_pulls[k] = 0 THEN b_min_cost
       ELSE IF group_size = 0
       THEN PyMax(b_min_cost, NpMean(st.arm_samples_X[k]))
       ELSE NpMedian(M1_group_means_X(st.arm_samples_X[k], 0, m, group_size))

M1_epsilon(st, k, n) ==
    XMul(Num(M_DEV_FACTOR),
         XSqrt(XDiv(XMul(XMul(alpha, V_XR(k)), XLog(n)), T_k(st, k))))

M1_eta(st, k, n) ==
    XMul(Num(M_DEV_FACTOR),
         XSqrt(XDiv(XMul(XMul(alpha, Fin(Cfg(k).var_X)), XLog(n)), T_k(st, k))))

\* --- the common skeleton -------------------------------------------------

\* The cost-mean estimate of arm k: the empirical mean, or M1's median of
\* group means.
CostMeanEstimate(st, k, n) ==
    CASE variant = "UCB_B1" -> B1_emp_mean_X(st, k)
      [] variant = "UCB_B2" -> B2_emp_mean_X(st, k)
      [] variant = "UCB_B2C" -> B2C_emp_mean_X(st, k)
      [] OTHER -> _get_median_empirical_X_estimator(st, k, n)

\* The Python division of the rate estimate raises ZeroDivisionError.
RateEstimateRaises(st, k, n) ==
    CASE variant = "UCB_B1" -> RateRaises(B1_emp_mean_R(st, k), B1_emp_mean_X(st, k))
      [] variant = "UCB_B2" -> RateRaises(B2_emp_mean_R(st, k), B2_emp_mean_X(st, k))
      [] variant = "UCB_B2C" -> RateRaises(B2C_emp_mean_R(st, k), B2C_emp_mean_X(st, k))
      [] OTHER -> M1_rate_raises(st, k, n)

\* r_hat_k (r_bar_k in UCB_M1).
RateEstimate(st, k, n) ==
    CASE variant = "UCB_B1" -> RateValue(B1_emp_mean_R(st, k), B1_emp_mean_X(st, k))
      [] variant = "UCB_B2" -> RateValue(B2_emp_mean_R(st, k), B2_emp_mean_X(st, k))
      [] variant = "UCB_B2C" -> RateValue(B2C_emp_mean_R(st, k), B2C_emp_mean_X(st, k))
      [] OTHER -> _get_median_rate_estimator(st, k, n)

Epsilon(st, k, n) ==
    CASE variant = "UCB_B1" -> B1_epsilon(st, k, n)
      [] variant = "UCB_B2" -> B2_epsilon(st, k, n)
      [] variant = "UCB_B2C" -> B2C_epsilon(st, k, n)
      [] OTHER -> M1_epsilon(st, k, n)

Eta(st, k, n) ==
    CASE variant = "UCB_B1" -> B1_eta(st, k, n)
      [] variant = "UCB_B2" -> B2_eta(st, k, n)
      [] variant = "UCB_B2C" -> B2C_eta(st, k, n)
      [] OTHER -> M1_eta(st, k, n)

\* max(b_min_cost, cost-mean estimate), the denominator of the width.
effective_theta1(st, k, n) == PyMax(b_min_cost, CostMeanEstimate(st, k, n))

\* The guard on eta.  UCB_B1 fails an arm whose cost mean is under the floor
\* and otherwise compares eta with the cost mean; the other classes compare
\* eta with the floored cost mean.
StabilityGuard(cost_mean, eta) ==
    IF variant = "UCB_B1"
    THEN IF XLt(cost_mean, b_min_cost) THEN FALSE
         ELSE ~XGe(eta, GuardBound(cost_mean))
    ELSE ~XGe(eta, GuardBound(PyMax(b_min_cost, cost_mean)))

stability_condition_met(st, k, n) ==
    StabilityGuard(CostMeanEstimate(st, k, n), Eta(st, k, n))

\* The rate estimate less the slope correction of the class.
SlopeCorrected(st, k, r_hat) ==
    CASE variant = "UCB_B1" -> XSub(r_hat, omega_k(k))
      [] variant = "UCB_B2" -> r_hat
      [] variant = "UCB_B2C" -> PyMax(Zero, XSub(r_hat, hat_omega_k_n(st, k)))
      [] OTHER -> XSub(r_hat, omega_k(k))

\* The factor in front of the width: 1.4, or 2 * sqrt(2) in UCB_M1.
WidthFactor ==
    IF variant = "UCB_M1" THEN XMul(Num(2), XSqrt(Num(2))) ELSE Fin(B_FACTOR)

\* c_k_n: np.inf when the stability condition is not met, else
\* factor * (epsilon + slope-corrected rate * eta) / effective_theta1.
ConfidenceWidth(st, k, n, r_hat) ==
    LET cost_mean == CostMeanEstimate(st, k, n)
        eta == Eta(st, k, n)
    IN IF ~StabilityGuard(cost_mean, eta) THEN PInf
       ELSE XDiv(XMul(WidthFactor,
                      XAdd(Epsilon(st, k, n),
                           XMul(SlopeCorrected(st, k, r_hat), eta))),
                 PyMax(b_min_cost, cost_mean))

\* The score of arm k: rate estimate + c_k_n.
ucb_value(st, k, n) ==
    LET r_hat == RateEstimate(st, k, n)
    IN XAdd(r_hat, ConfidenceWidth(st, k, n, r_hat))

\* The loop "for k in range(self.num_arms)" from arm k on: the scores of
\* arms k .. K-1, in index order.
RECURSIVE ucb_values_from(_, _, _)
ucb_values_from(st, k, n) ==
    IF k \notin DOMAIN st.arm_pulls THEN <<>>
    ELSE <<ucb_value(st, k, n)>> \o ucb_values_from(st, k + 1, n)

\* ucb_values after the loop; entry i is the score of arm i - 1.
ucb_values(st, n) == ucb_values_from(st, 0, n)

\* The cold-start loop: the first arm, in index order, with no pull.
\* A scan that starts at the second arm and never looks at arm 0.
UnpulledPastFirst(st) ==
    {k \in DOMAIN st.arm_pulls : k > 0 /\ st.arm_pulls[k] = 0}

Unpulled(st) == {k \in DOMAIN st.arm_pulls : st.arm_pulls[k] = 0}
\* The scan run from the last arm down: the last arm with no pull.
ColdStartArmLast(st) == CHOOSE k \in Unpulled(st) : \A j \in Unpulled(st) : k >= j

ColdStartArm(st) == CHOOSE k \in Unpulled(st) : \A j \in Unpulled(st) : k <= j

\* A select_arm that returns arm 0 once any cost has been spent.
select_arm_spending(st, current_total_cost, current_epoch) ==
    IF current_total_cost # 0 THEN [raised |-> "none", arm |-> 0]
    ELSE IF Unpulled(st) # {}
    THEN [raised |-> "none", arm |-> ColdStartArm(st)]
    ELSE IF \E k \in DOMAIN st.arm_pulls : RateEstimateRaises(st, k, current_epoch)
    THEN [raised |-> "ZeroDivisionError", arm |-> -1]
    ELSE [raised |-> "none",
          arm |-> NpArgmax(ucb_values(st, current_epoch))]

\* select_arm(current_total_cost, current_epoch): the arm returned, or the
\* exception raised.  current_total_cost is read nowhere.
select_arm(st, current_total_cost, current_epoch) ==
    IF Unpulled(st) # {}
    THEN [raised |-> "none", arm |-> ColdStartArm(st)]
    ELSE IF \E k \in DOMAIN st.arm_pulls : RateEstimateRaises(st, k, current_epoch)
    THEN [raised |-> "ZeroDivisionError", arm |-> -1]
    ELSE [raised |-> "none",
          arm |-> NpArgmax(ucb_values(st, current_epoch))]

\* The arms select_arm runs the body of its score loop for: none when the
\* cold-start scan returns, else the arms in index order up to and including
\* the first one whose rate estimate raises.
ScoredArms(st, current_epoch) ==
    IF Unpulled(st) # {} THEN {}
    ELSE {k \in DOMAIN st.arm_pulls :
            \A j \in DOMAIN st.arm_pulls :
                j < k => ~RateEstimateRaises(st, j, current_epoch)}

\* A select_arm that counts a pull of arm 0.
select_arm_counting(st, current_total_cost, current_epoch) ==
    [st EXCEPT !.arm_pulls[0] = @ + 1]

\* The instance after select_arm: the method assigns to no attribute of self
\* and calls nothing that does (ucb_values is a local array, the sample
\* lists are sliced and averaged into new objects).
select_arm_state(st, current_total_cost, current_epoch) == st

\* ------------------------------------------------------------------------
\* update_state, reset
\* ------------------------------------------------------------------------

\* Python and numpy indexing of a length-K container: -K .. -1 count from
\* the end, anything else outside 0 .. K-1 raises IndexError.
IndexInRange(i, K) == -K <= i /\ i < K
PyIndex(i, K) == IF i < 0 THEN i + K ELSE i

Square(x) == Quot(x * x, SCALE)

\* An update_state that counts the pull and drops the observation.
RecordPullOnly(st, k, cost, reward) == [st EXCEPT !.arm_pulls[k] = @ + 1]

\* The body of update_state once chosen_arm indexes arm k.
RecordObservation(st, k, cost, reward) ==
    [st EXCEPT
        !.arm_pulls[k] = @ + 1,
        !.total_costs[k] = IF UsesSums THEN @ + cost ELSE @,
        !.total_rewards[k] = IF UsesSums THEN @ + reward ELSE @,
        !.sum_sq_costs[k] = IF UsesSquares THEN @ + Square(cost) ELSE @,
        !.sum_sq_rewards[k] = IF UsesSquares THEN @ + Square(reward) ELSE @,
        !.arm_samples_X[k] = IF UsesSamples THEN Append(@, cost) ELSE @,
        !.arm_samples_R[k] = IF UsesSamples THEN Append(@, reward) ELSE @]

\* update_state(chosen_arm, cost, reward): the first statement indexes
\* arm_pulls, so an index Python rejects raises before anything is written.
update_state(st, chosen_arm, cost, reward) ==
    LET K == Cardinality(DOMAIN st.arm_pulls)
    IN IF IndexInRange(chosen_arm, K)
       THEN [raised |-> "none",
             st |-> RecordObservation(st, PyIndex(chosen_arm, K), cost, reward)]
       ELSE [raised |-> "IndexError", st |-> st]

\* A reset that zeroes the pull counts and nothing else.
reset_pulls_only(st) == [st EXCEPT !.arm_pulls = [k \in DOMAIN st.arm_pulls |-> 0]]

\* reset(): fill(0) on the arrays of the class, clear() on its lists.
reset(st) ==
    [arm_pulls |-> [k \in DOMAIN st.arm_pulls |-> 0],
     total_costs |-> [k \in DOMAIN st.arm_pulls |->
                        IF UsesSums THEN 0 ELSE st.total_costs[k]],
     total_rewards |-> [k \in DOMAIN st.arm_pulls |->
                        IF UsesSums THEN 0 ELSE st.total_rewards[k]],
     sum_sq_costs |-> [k \in DOMAIN st.arm_pulls |->
                        IF UsesSquares THEN 0 ELSE st.sum_sq_costs[k]],
     sum_sq_rewards |-> [k \in DOMAIN st.arm_pulls |->
                        IF UsesSquares THEN 0 ELSE st.sum_sq_rewards[k]],
     arm_samples_X |-> [k \in DOMAIN st.arm_pulls |->
                        IF UsesSamples THEN <<>> ELSE st.arm_samples_X[k]],
     arm_samples_R |-> [k \in DOMAIN st.arm_pulls |->
                        IF UsesSamples THEN <<>> ELSE st.arm_samples_R[k]]]

\* ------------------------------------------------------------------------
\* GeneralCostRewardEnvironment
\* ------------------------------------------------------------------------

\* An arm's config: its type, whether params holds 'mean_X' and 'mean_R',
\* whether it holds the parameters its family requires, and the values read.
EnvArm(type, mean_X, var_X, var_R, cov_XR, correlation) ==
    [type |-> type, has_means |-> TRUE, has_family_params |-> TRUE,
     mean_X |-> mean_X, mean_R |-> 2 * SCALE,
     var_X |-> var_X, var_R |-> var_R, cov_XR |-> cov_XR,
     correlation |-> correlation]

GaussianDefinite == EnvArm("gaussian", 100, 100, 100, 50, 0)
GaussianSingular == EnvArm("gaussian", 100, 100, 100, 100, 0)
GaussianZeroVar == EnvArm("gaussian", 100, 0, 100, 0, 0)
GaussianIndefinite == EnvArm("gaussian", 100, 100, 100, 200, 0)
GaussianNegVar == EnvArm("gaussian", 100, -100, 100, 0, 0)
GaussianFreeCost == EnvArm("gaussian", 0, 100, 100, 50, 0)
HeavyTailed == EnvArm("heavy_tailed", 200, 0, 0, 0, 0)
HeavyTailedMixed == EnvArm("heavy_tailed", -100, 0, 0, 0, 50)
HeavyTailedShort == [HeavyTailed EXCEPT !.has_family_params = FALSE]
BoundedUniform == EnvArm("bounded_uniform", 100, 0, 0, 0, 0)
BoundedUniformMixed == EnvArm("bounded_uniform", 100, 0, 0, 0, 50)
NoMeans == [GaussianDefinite EXCEPT !.has_means = FALSE]
Poisson == EnvArm("poisson", 100, 0, 0, 0, 0)

\* The (num_arms, arm_configs) pairs the environment is constructed with.
EnvSetups ==
    {[num_arms |-> 1, arm_configs |-> <<GaussianDefinite>>],
     [num_arms |-> 2, arm_configs |-> <<GaussianDefinite, HeavyTailedMixed>>],
     [num_arms |-> 2, arm_configs |-> <<BoundedUniformMixed, GaussianFreeCost>>],
     [num_arms |-> 2, arm_configs |-> <<HeavyTailed, BoundedUniform>>],
     [num_arms |-> 1, arm_configs |-> <<GaussianSingular>>],
     [num_arms |-> 2, arm_configs |-> <<HeavyTailed, GaussianZeroVar>>],
     [num_arms |-> 1, arm_configs |-> <<GaussianIndefinite>>],
     [num_arms |-> 2, arm_configs |-> <<GaussianFreeCost, GaussianNegVar>>],
     [num_arms |-> 1, arm_configs |-> <<HeavyTailedShort>>],
     [num_arms |-> 1, arm_configs |-> <<NoMeans>>],
     [num_arms |-> 1, arm_configs |-> <<Poisson>>],
     [num_arms |-> 2, arm_configs |-> <<GaussianDefinite>>],
     [num_arms |-> 0, arm_configs |-> <<>>]}

Seeds == {7, 42}

\* np.random.default_rng(seed): the generator is its seed and the number of
\* variates it has handed out.
default_rng(seed) == [seed |-> seed, pos |-> 0]
NoGenerator == [seed |-> -1, pos |-> 0]

\* No object: the constructor has not run.
NoEnvironment ==
    [status |-> "unbuilt", rng |-> NoGenerator, warned |-> {}, has_initial_seed |-> FALSE]

\* [[var_X, cov_XR], [cov_XR, var_R]] is positive semi-definite.
IsPSD(var_X, var_R, cov_XR) ==
    /\ var_X >= 0
    /\ var_R >= 0
    /\ var_X * var_R - cov_XR * cov_XR >= 0

\* np.linalg.cholesky of that matrix raises LinAlgError: the factorization
\* stops at a pivot that is not positive.
CholeskyRaises(var_X, var_R, cov_XR) ==
    \/ var_X <= 0
    \/ var_X * var_R - cov_XR * cov_XR <= 0

\* The checks of __init__ on arm k (1-based here): the error raised, or
\* "none".
ArmConfigError(config) ==
    IF ~config.has_means THEN "ValueError: missing mean"
    ELSE CASE config.type = "gaussian" ->
                IF CholeskyRaises(config.var_X, config.var_R, config.cov_XR)
                THEN "ValueError: not positive semi-definite"
                ELSE "none"
           [] config.type = "heavy_tailed" ->
                IF ~config.has_family_params
                THEN "ValueError: missing required parameters" ELSE "none"
           [] config.type = "bounded_uniform" ->
                IF ~config.has_family_params
                THEN "ValueError: missing required parameters" ELSE "none"
           [] OTHER -> "ValueError: unsupported arm type"

\* The arms __init__ gets to before it raises (all of them if it does not).
ArmsValidated(configs) ==
    {k \in 1..Len(configs) : \A j \in 1..(k - 1) : ArmConfigError(configs[j]) = "none"}

\* The arms for which __init__ prints the non-positive expected cost warning.
ArmsWarned(configs) ==
    {k \in ArmsValidated(configs) : configs[k].has_means /\ configs[k].mean_X <= 0}

\* BanditEnvironment.__init__: the checks on num_arms and arm_configs, then
\* the loop that reads params['mean_X'] and params['mean_R'] of every arm.
BaseInitError(n, configs) ==
    IF n <= 0 THEN "ValueError: num_arms"
    ELSE IF Len(configs) # n THEN "ValueError: length"
    ELSE IF \E k \in 1..n : ~configs[k].has_means THEN "KeyError"
    ELSE "none"

\* GeneralCostRewardEnvironment.__init__(num_arms, arm_configs, seed): the
\* object built, or the error raised.  The generator is created before the
\* loop over the arms; no attribute keeps the seed.
GeneralCostRewardEnvironment(n, configs, seed) ==
    LET failing == {k \in ArmsValidated(configs) : ArmConfigError(configs[k]) # "none"}
    IN IF BaseInitError(n, configs) # "none"
       THEN [status |-> BaseInitError(n, configs), rng |-> NoGenerator,
             warned |-> {}, has_initial_seed |-> FALSE]
       ELSE IF failing # {}
       THEN [status |-> ArmConfigError(configs[CHOOSE k \in failing : TRUE]),
             rng |-> NoGenerator, warned |-> ArmsWarned(configs),
             has_initial_seed |-> FALSE]
       ELSE [status |-> "constructed", rng |-> default_rng(seed),
             warned |-> ArmsWarned(configs), has_initial_seed |-> FALSE]

\* The variates one pull of a sampler takes from the generator.
Draws(config) ==
    CASE config.type = "gaussian" -> 2
      [] config.type = "heavy_tailed" -> IF config.correlation # 0 THEN 3 ELSE 2
      [] OTHER -> IF config.correlation # 0 THEN 3 ELSE 2

\* The (cost, reward) pair a sampler makes of the variates the generator
\* hands out from its current position.
NoSample == [arm |-> -1, seed |-> -1, at |-> -1]
Sample(k, rng) == [arm |-> k, seed |-> rng.seed, at |-> rng.pos]

\* Sampling arm k (0-based) of environment e: the sample, and e with its
\* generator moved on.
SampleArm(e, configs, k) ==
    [raised |-> "none", sample |-> Sample(k, e.rng),
     env |-> [e EXCEPT !.rng.pos = @ + Draws(configs[k + 1])]]

\* pull_arm checking the upper end only: -K .. -1 then index the samplers
\* from the end, and anything lower raises IndexError from the list.
pull_arm_upper_check(e, configs, arm_index) ==
    IF ~(arm_index < Len(configs))
    THEN [raised |-> "ValueError", sample |-> NoSample, env |-> e]
    ELSE IF ~IndexInRange(arm_index, Len(configs))
    THEN [raised |-> "IndexError", sample |-> NoSample, env |-> e]
    ELSE SampleArm(e, configs, PyIndex(arm_index, Len(configs)))

\* pull_arm(arm_index): the index check comes before the generator is used.
pull_arm(e, configs, arm_index) ==
    IF ~(0 <= arm_index /\ arm_index < Len(configs))
    THEN [raised |-> "ValueError", sample |-> NoSample, env |-> e]
    ELSE SampleArm(e, configs, arm_index)

\* reset(): re-creates the generator when the object has an _initial_seed.
env_reset(e, seed) ==
    IF e.has_initial_seed THEN [e EXCEPT !.rng = default_rng(seed)] ELSE e

\* ------------------------------------------------------------------------
\* The policy under calls
\* ------------------------------------------------------------------------

TotalPulls(st) == SeqSum([i \in 1..Cardinality(DOMAIN st.arm_pulls) |-> st.arm_pulls[i - 1]])

\* What the driver passes as current_total_cost: the costs reported so far.
ReportedCost(st) ==
    SeqSum([i \in 1..Cardinality(DOMAIN st.arm_pulls) |->
               IF UsesSums THEN st.total_costs[i - 1] ELSE SeqSum(st.arm_samples_X[i - 1])])

\* The arms whose statistics differ between st and after.
Touched(st, after) ==
    {k \in DOMAIN st.arm_pulls :
        \/ st.arm_pulls[k] # after.arm_pulls[k]
        \/ st.total_costs[k] # after.total_costs[k]
        \/ st.total_rewards[k] # after.total_rewards[k]
        \/ st.sum_sq_costs[k] # after.sum_sq_costs[k]
        \/ st.sum_sq_rewards[k] # after.sum_sq_rewards[k]
        \/ st.arm_samples_X[k] # after.arm_samples_X[k]
        \/ st.arm_samples_R[k] # after.arm_samples_R[k]}

\* on: the instance called ("algo" or "peer"); touched: the arms whose
\* statistics the call changed.
NoCall == [op |-> "none", on |-> "algo", arm |-> -1, epoch |-> 0, cost |-> 0, reward |-> 0,
           raised |-> "none", twin_arm |-> -1, twin_raised |-> "none",
           touched |-> {}]

\* selected: the arms select_arm returned, in order; pending: the last of
\* them awaits its update_state; after_reset: the rounds started with a
\* reset() of an instance that held observations; ok: every call so far
\* followed the pattern select_arm, update_state(returned arm, ...).
NewTrial(after_reset) ==
    [selected |-> <<>>, pending |-> FALSE, after_reset |-> after_reset, ok |-> TRUE]
BrokenTrial ==
    [selected |-> <<>>, pending |-> FALSE, after_reset |-> FALSE, ok |-> FALSE]

\* failed: the kinds of index ("negative", "high") that pull_arm has been
\* called with and raised on so far.
NoEnvCall == [op |-> "none", arm |-> -1, raised |-> "none", sample |-> NoSample,
              fresh_sample |-> NoSample, failed |-> {}]

\* No trial is running.  pc: "idle", "loop" (in the while loop), "done" (the
\* results of the trial are recorded) or "crashed" (a call raised); run_idx:
\* the trials started before this one; costs and rewards: what pull_arm
\* returned, round by round; select_epoch, select_cost, chosen_arm: the
\* arguments and the result of the last select_arm; pulled_arm: the arm the
\* last pull_arm sampled; updated_arms: the arms whose statistics the last
\* update_state changed.
NoRun ==
    [pc |-> "idle", run_idx |-> 0, budget |-> 0, epoch |-> 0,
     current_total_cost |-> 0, current_total_reward |-> 0,
     costs |-> <<>>, rewards |-> <<>>,
     optimal_static_reward_expected |-> Zero, regret_for_run |-> Zero,
     raised |-> "none",
     select_epoch |-> 0, select_cost |-> 0, chosen_arm |-> -1,
     pulled_arm |-> -1, updated_arms |-> {}]
RunIdle == run = NoRun

\* No estimator or sampler arithmetic has been applied.
NoProbe == [op |-> "none"]
ProbeIdle == probe = NoProbe

AlgoInit ==
    /\ variant \in Variants
    /\ \E s \in Setups : arm_configs = s.cfg /\ algorithm_params = s.prm
    /\ algo = Construct(Len(arm_configs))
    /\ twin = Construct(Len(arm_configs))
    /\ peer = Construct(Len(arm_configs))
    /\ ret = NoCall
    /\ trial = NewTrial(FALSE)

\* No environment takes part.
EnvIdle ==
    /\ env_args = [num_arms |-> 0, arm_configs |-> <<>>, seed |-> 0]
    /\ env = NoEnvironment
    /\ fresh = NoEnvironment
    /\ shadow = NoEnvironment
    /\ env_ret = NoEnvCall

\* A call of select_arm on the instance, and the same call on its twin.
SelectArm ==
    \E n \in 1..MaxEpoch :
        LET r == select_arm(algo, ReportedCost(algo), n)
            t == IF twin = algo THEN r ELSE select_arm(twin, ReportedCost(algo), n)
        IN /\ ret' = [NoCall EXCEPT !.op = "select_arm", !.epoch = n,
                                    !.arm = r.arm, !.raised = r.raised,
                                    !.twin_arm = t.arm, !.twin_raised = t.raised]
           /\ trial' = IF trial.ok /\ ~trial.pending /\ r.raised = "none"
                       THEN [trial EXCEPT !.selected = Append(@, r.arm), !.pending = TRUE]
                       ELSE BrokenTrial
           /\ algo' = select_arm_state(algo, ReportedCost(algo), n)
           /\ twin' = select_arm_state(twin, ReportedCost(algo), n)
           /\ UNCHANGED <<variant, arm_configs, algorithm_params>>
           /\ UNCHANGED envVars
           /\ UNCHANGED <<run, probe, peer>>

\* A call of update_state with an index from the set indices.
UpdateStateWith(indices) ==
    \E i \in indices, obs \in Observations :
        LET r == update_state(algo, i, obs[1], obs[2])
            t == update_state(twin, i, obs[1], obs[2])
        IN /\ TotalPulls(algo) < MaxPulls
           /\ algo' = r.st
           /\ twin' = t.st
           /\ ret' = [NoCall EXCEPT !.op = "update_state", !.arm = i,
                                    !.cost = obs[1], !.reward = obs[2],
                                    !.raised = r.raised, !.twin_raised = t.raised,
                                    !.touched = Touched(algo, r.st)]
           /\ trial' = IF /\ trial.ok
                          /\ trial.pending
                          /\ i = trial.selected[Len(trial.selected)]
                          /\ r.raised = "none"
                       THEN [trial EXCEPT !.pending = FALSE]
                       ELSE BrokenTrial
           /\ UNCHANGED <<variant, arm_configs, algorithm_params>>
           /\ UNCHANGED envVars
           /\ UNCHANGED <<run, probe, peer>>

\* update_state for an arm of the instance, as the driver calls it.
UpdateState == UpdateStateWith(Arms)

\* update_state with any index from -(K+1) to K.
UpdateStateAnyIndex == UpdateStateWith((-(num_arms + 1))..num_arms)

\* A call of reset; the twin is replaced by a newly constructed instance.
Reset ==
    /\ algo' = reset(algo)
    /\ twin' = Construct(num_arms)
    /\ ret' = [NoCall EXCEPT !.op = "reset"]
    /\ trial' = NewTrial(TotalPulls(algo) > 0)
    /\ UNCHANGED <<variant, arm_configs, algorithm_params>>
    /\ UNCHANGED envVars
    /\ UNCHANGED <<run, probe, peer>>

Init == AlgoInit /\ EnvIdle /\ RunIdle /\ ProbeIdle

Next == SelectArm \/ UpdateState \/ Reset

\* The policy under select_arm, update_state of its arms, and reset.
Spec == Init /\ [][Next]_vars

IndexNext == UpdateStateAnyIndex \/ Reset

\* The policy under update_state with any index, and reset.
IndexSpec == Init /\ [][IndexNext]_vars

\* algorithm_params with an alpha of 0.5, for which UCB_M1 asks for one group
\* at epoch 1 and for two at epoch 2.
Mild == [Tuned EXCEPT !.alpha = 50]

\* UCB_M1 on one arm and on two, with alpha 2.1 and with alpha 0.5.
GroupInit ==
    /\ variant = "UCB_M1"
    /\ arm_configs \in {<<Calm>>, <<Calm, Wild>>}
    /\ algorithm_params \in {Tuned, Mild}
    /\ algo = Construct(Len(arm_configs))
    /\ twin = Construct(Len(arm_configs))
    /\ peer = Construct(Len(arm_configs))
    /\ ret = NoCall
    /\ trial = NewTrial(FALSE)
    /\ EnvIdle
    /\ RunIdle
    /\ ProbeIdle

\* UCB_M1 under select_arm, update_state of its arms, and reset.
GroupSpec == GroupInit /\ [][Next]_vars

\* config['params'] of an arm whose cost varies little and whose reward
\* follows it: var_X 0.01, var_R 1, cov_XR 0.1, so omega_k = 10 and
\* V(X, R) = 0.
Steep == [var_X |-> 1, var_R |-> 100, cov_XR |-> 10, M_X |-> 0, M_R |-> 0]

\* The four classes on that arm, alone and beside another, with the defaults.
SlopeInit ==
    /\ variant \in Variants
    /\ arm_configs \in {<<Steep>>, <<Steep, Calm>>}
    /\ algorithm_params = Tuned
    /\ algo = Construct(Len(arm_configs))
    /\ twin = Construct(Len(arm_configs))
    /\ peer = Construct(Len(arm_configs))
    /\ ret = NoCall
    /\ trial = NewTrial(FALSE)
    /\ EnvIdle
    /\ RunIdle
    /\ ProbeIdle

\* The policy on an arm of steep slope under select_arm, update_state of its
\* arms, and reset.
SlopeSpec == SlopeInit /\ [][Next]_vars

\* ------------------------------------------------------------------------
\* Two instances under calls
\* ------------------------------------------------------------------------

\* An instance whose arrays and lists are the ones another instance writes
\* to (class-level attributes): it holds what the other wrote.
shared_attributes(own, written) == written

\* What an instance holds after a call on another instance wrote `written`:
\* __init__ binds np.zeros(num_arms) arrays and a list comprehension of new
\* lists to self, and update_state and reset write through self only, so it
\* holds what it held.
instance_attributes(own, written) == own

\* The instance called and the other one.
Instances == {"algo", "peer"}
Held(on) == IF on = "algo" THEN algo ELSE peer

\* The two instances after a call on instance `on` left it holding `after`.
PairAfter(on, after) ==
    /\ algo' = IF on = "algo" THEN after ELSE instance_attributes(algo, after)
    /\ peer' = IF on = "peer" THEN after ELSE instance_attributes(peer, after)

\* (cost, reward) pairs passed to update_state of either instance.
PairObservations == {<<0, 200>>, <<300, 200>>}

\* Both instances are constructed from the defaults and two arms.
PairInit ==
    /\ Init
    /\ arm_configs = <<Calm, Wild>>
    /\ algorithm_params = Tuned

\* The calls on the two instances together are cut at MaxPulls updates.
PairSelectArm ==
    \E on \in Instances, n \in 1..MaxEpoch :
        LET r == select_arm(Held(on), ReportedCost(Held(on)), n)
        IN /\ PairAfter(on, select_arm_state(Held(on), ReportedCost(Held(on)), n))
           /\ ret' = [NoCall EXCEPT !.op = "select_arm", !.on = on, !.epoch = n,
                                    !.arm = r.arm, !.raised = r.raised]
           /\ UNCHANGED <<variant, arm_configs, algorithm_params, twin, trial>>
           /\ UNCHANGED <<envVars, run, probe>>

PairUpdateState ==
    \E on \in Instances, i \in Arms, obs \in PairObservations :
        LET r == update_state(Held(on), i, obs[1], obs[2])
        IN /\ TotalPulls(algo) + TotalPulls(peer) < MaxPulls
           /\ PairAfter(on, r.st)
           /\ ret' = [NoCall EXCEPT !.op = "update_state", !.on = on, !.arm = i,
                                    !.cost = obs[1], !.reward = obs[2],
                                    !.raised = r.raised,
                                    !.touched = Touched(Held(on), r.st)]
           /\ UNCHANGED <<variant, arm_configs, algorithm_params, twin, trial>>
           /\ UNCHANGED <<envVars, run, probe>>

PairReset ==
    \E on \in Instances :
        /\ PairAfter(on, reset(Held(on)))
        /\ ret' = [NoCall EXCEPT !.op = "reset", !.on = on]
        /\ UNCHANGED <<variant, arm_configs, algorithm_params, twin, trial>>
        /\ UNCHANGED <<envVars, run, probe>>

PairNext == PairSelectArm \/ PairUpdateState \/ PairReset

\* Two instances of one class and one configuration under interleaved calls.
PairSpec == PairInit /\ [][PairNext]_vars

\* ------------------------------------------------------------------------
\* The environment under calls
\* ------------------------------------------------------------------------

\* No policy takes part.
AlgoIdle ==
    /\ variant = "UCB_B1"
    /\ arm_configs = <<Calm>>
    /\ algorithm_params = Tuned
    /\ algo = Construct(1)
    /\ twin = Construct(1)
    /\ peer = Construct(1)
    /\ ret = NoCall
    /\ trial = NewTrial(FALSE)

EnvInit ==
    /\ \E s \in EnvSetups, seed \in Seeds :
          env_args = [num_arms |-> s.num_arms, arm_configs |-> s.arm_configs,
                      seed |-> seed]
    /\ env = NoEnvironment
    /\ fresh = NoEnvironment
    /\ shadow = NoEnvironment
    /\ env_ret = NoEnvCall

\* The constructor call.
EnvConstruct ==
    /\ env.status = "unbuilt"
    /\ env' = GeneralCostRewardEnvironment(env_args.num_arms, env_args.arm_configs,
                                           env_args.seed)
    /\ shadow' = env'
    /\ env_ret' = [NoEnvCall EXCEPT !.op = "__init__",
                                   !.raised = IF env'.status = "constructed"
                                              THEN "none" ELSE env'.status]
    /\ UNCHANGED <<env_args, fresh>>
    /\ UNCHANGED algoVars
    /\ UNCHANGED <<run, probe>>

\* A call of pull_arm with any index from -(K+1) to K, and the same call on
\* the fresh environment if there is one; the shadow gets it if the index
\* is one of 0 .. K-1.
PullArm ==
    \E i \in (-(env_args.num_arms + 1))..env_args.num_arms :
        LET r == pull_arm(env, env_args.arm_configs, i)
            f == pull_arm(fresh, env_args.arm_configs, i)
        IN /\ env.status = "constructed"
           /\ env.rng.pos < MaxDraws
           /\ env' = r.env
           /\ fresh' = IF fresh.status = "constructed" THEN f.env ELSE fresh
           /\ shadow' = IF 0 <= i /\ i < env_args.num_arms
                        THEN pull_arm(shadow, env_args.arm_configs, i).env
                        ELSE shadow
           /\ env_ret' = [op |-> "pull_arm", arm |-> i, raised |-> r.raised,
                          sample |-> r.sample,
                          fresh_sample |-> IF fresh.status = "constructed"
                                           THEN f.sample ELSE NoSample,
                          failed |-> IF r.raised = "none" THEN env_ret.failed
                                     ELSE env_ret.failed \cup
                                          {IF i < 0 THEN "negative" ELSE "high"}]
           /\ UNCHANGED env_args
           /\ UNCHANGED algoVars
           /\ UNCHANGED <<run, probe>>

\* A call of reset; the fresh environment is constructed anew.
EnvReset ==
    /\ env.status = "constructed"
    /\ env' = env_reset(env, env_args.seed)
    /\ shadow' = env_reset(shadow, env_args.seed)
    /\ fresh' = GeneralCostRewardEnvironment(env_args.num_arms, env_args.arm_configs,
                                             env_args.seed)
    /\ env_ret' = [NoEnvCall EXCEPT !.op = "reset", !.failed = env_ret.failed]
    /\ UNCHANGED env_args
    /\ UNCHANGED algoVars
    /\ UNCHANGED <<run, probe>>

EnvSpecInit == AlgoIdle /\ EnvInit /\ RunIdle /\ ProbeIdle

EnvNext == EnvConstruct \/ PullArm \/ EnvReset

\* The environment under construction, pull_arm with any index, and reset.
EnvSpec == EnvSpecInit /\ [][EnvNext]_vars

\* ------------------------------------------------------------------------
\* BanditEnvironment: the true reward rates
\* ------------------------------------------------------------------------

\* np.max of a non-empty array.
NpMax(a) == a[NpArgmax(a) + 1]

\* self.true_reward_rates: mean_R / mean_X for an arm with mean_X > 0, else
\* -np.inf; entry k is the rate of arm k - 1.
RECURSIVE rates_from(_, _)
rates_from(configs, k) ==
    IF k > Len(configs) THEN <<>>
    ELSE <<IF configs[k].mean_X > 0
           THEN XDiv(Fin(configs[k].mean_R), Fin(configs[k].mean_X))
           ELSE NInf>> \o rates_from(configs, k + 1)

true_reward_rates(configs) == rates_from(configs, 1)

optimal_reward_rate(configs) == NpMax(true_reward_rates(configs))

\* np.where(true_reward_rates == optimal_reward_rate)[0][0]
optimal_arm_index_last(configs) ==
    LET rates == true_reward_rates(configs)
        best == {k \in 1..Len(rates) : rates[k] = optimal_reward_rate(configs)}
    IN (CHOOSE k \in best : \A j \in best : k >= j) - 1

optimal_arm_index(configs) ==
    LET rates == true_reward_rates(configs)
        best == {k \in 1..Len(rates) : rates[k] = optimal_reward_rate(configs)}
    IN (CHOOSE k \in best : \A j \in best : k <= j) - 1

get_optimal_reward_rate(configs) == optimal_reward_rate(configs)

\* ------------------------------------------------------------------------
\* run_simulations: one trial of the driver
\* ------------------------------------------------------------------------

\* The rounds of a trial the model follows.
MaxRounds == 4

\* The trials (run_idx) of one budget the model follows.
MaxTrials == 2

\* budget values (BUDGETS), in the model's unit.
Budgets == {-100, 0, 200}

\* (cost, reward) pairs pull_arm returns in a trial.
TrialObservations == {<<0, -100>>, <<-100, 200>>, <<100, 200>>, <<300, 200>>}

\* An arm of ARM_CONFIGS as the environment reads it, with its true means.
TrialArm(arm, mean_X, mean_R) == [arm EXCEPT !.mean_X = mean_X, !.mean_R = mean_R]

\* ARM_CONFIGS as the policy reads it (cfg) and as the environment reads it
\* (env), with ALGORITHM_PARAMS (prm): two arms sharing the best rate; an
\* arm of negative expected cost and negative expected reward beside an arm
\* of positive ones; a single arm of zero expected cost.
TrialSetups ==
    {[cfg |-> <<Calm, Wild>>, prm |-> Tuned,
      env |-> <<TrialArm(BoundedUniform, 100, 200), TrialArm(GaussianDefinite, 200, 400)>>],
     [cfg |-> <<Wild, Calm>>, prm |-> ZeroFloor,
      env |-> <<TrialArm(GaussianDefinite, -100, -800), TrialArm(BoundedUniform, 100, 400)>>],
     [cfg |-> <<Wild>>, prm |-> Tuned,
      env |-> <<TrialArm(GaussianDefinite, 0, 200)>>]}

\* seed=None, the default of the environment's constructor.
NoSeed == -1

\* np.random.default_rng(None) seeds the generator from the operating
\* system's entropy: any seed.
SeedUsed(seed, entropy) == IF seed = NoSeed THEN entropy ELSE seed

\* "while current_total_cost <= budget" with "<" for "<=".
BudgetLeftStrict(current_total_cost, budget) == current_total_cost < budget

\* while current_total_cost <= budget
BudgetLeft(current_total_cost, budget) == current_total_cost <= budget

\* An epoch that stays where it is.
SameEpoch(epoch) == epoch

\* epoch += 1
NextEpoch(epoch) == epoch + 1

\* A total that is never added to.
AccumulateNothing(total, amount) == total

\* current_total_cost += cost; current_total_reward += reward
Accumulate(total, amount) == total + amount

TrialInit ==
    /\ variant \in Variants
    /\ \E s \in TrialSetups :
          /\ arm_configs = s.cfg
          /\ algorithm_params = s.prm
          /\ env_args = [num_arms |-> Len(s.env), arm_configs |-> s.env, seed |-> NoSeed]
    /\ algo = Construct(Len(arm_configs))
    /\ twin = Construct(Len(arm_configs))
    /\ peer = Construct(Len(arm_configs))
    /\ ret = NoCall
    /\ trial = NewTrial(FALSE)
    /\ env = NoEnvironment
    /\ fresh = NoEnvironment
    /\ shadow = NoEnvironment
    /\ env_ret = NoEnvCall
    /\ \E b \in Budgets : run = [NoRun EXCEPT !.budget = b]
    /\ ProbeIdle

\* The head of the loop over run_idx, for the first trial or after the
\* results of the one before are recorded: the environment is constructed
\* with no seed, the policy is constructed and reset, the totals and the
\* epoch are zeroed.  shadow is the environment the same trial constructs in
\* a second execution of run_simulations.
StartTrial ==
    \E entropy \in Seeds, entropy_again \in Seeds :
        LET e == GeneralCostRewardEnvironment(env_args.num_arms, env_args.arm_configs,
                                              SeedUsed(env_args.seed, entropy))
            started == [NoRun EXCEPT !.budget = run.budget,
                                     !.run_idx = IF run.pc = "done" THEN run.run_idx + 1
                                                 ELSE run.run_idx]
        IN /\ run.pc \in {"idle", "done"}
           /\ run.pc = "done" => run.run_idx + 1 < MaxTrials
           /\ env' = e
           /\ shadow' = GeneralCostRewardEnvironment(env_args.num_arms, env_args.arm_configs,
                                                     SeedUsed(env_args.seed, entropy_again))
           /\ algo' = reset(Construct(num_arms))
           /\ run' = IF e.status # "constructed"
                      THEN [started EXCEPT !.pc = "crashed", !.raised = e.status]
                      ELSE [started EXCEPT
                              !.pc = "loop",
                              !.current_total_cost = 0,
                              !.current_total_reward = 0,
                              !.epoch = 0,
                              !.optimal_static_reward_expected =
                                  XMul(get_optimal_reward_rate(env_args.arm_configs),
                                       Fin(run.budget))]
           /\ UNCHANGED <<variant, arm_configs, algorithm_params, twin, ret, trial, peer>>
           /\ UNCHANGED <<env_args, fresh, env_ret, probe>>

\* One pass through the body of the while loop: select_arm, pull_arm,
\* update_state, the two totals.
Round ==
    \E obs \in TrialObservations :
        LET n == NextEpoch(run.epoch)
            r == select_arm(algo, run.current_total_cost, n)
            p == pull_arm(env, env_args.arm_configs, r.arm)
            u == update_state(select_arm_state(algo, run.current_total_cost, n),
                              r.arm, obs[1], obs[2])
        IN /\ run.pc = "loop"
           /\ BudgetLeft(run.current_total_cost, run.budget)
           /\ run.epoch < MaxRounds
           /\ IF r.raised # "none"
              THEN /\ run' = [run EXCEPT !.pc = "crashed", !.raised = r.raised, !.epoch = n,
                                           !.select_epoch = n,
                                           !.select_cost = run.current_total_cost]
                   /\ algo' = select_arm_state(algo, run.current_total_cost, n)
                   /\ UNCHANGED env
              ELSE /\ env' = p.env
                   /\ algo' = u.st
                   /\ run' = [run EXCEPT
                                !.epoch = n,
                                !.current_total_cost = Accumulate(@, obs[1]),
                                !.current_total_reward = Accumulate(@, obs[2]),
                                !.costs = Append(@, obs[1]),
                                !.rewards = Append(@, obs[2]),
                                !.select_epoch = n,
                                !.select_cost = run.current_total_cost,
                                !.chosen_arm = r.arm,
                                !.pulled_arm = p.sample.arm,
                                !.updated_arms = Touched(algo, u.st)]
           /\ UNCHANGED <<variant, arm_configs, algorithm_params, twin, ret, trial, peer>>
           /\ UNCHANGED <<env_args, fresh, shadow, env_ret, probe>>

\* A loop that is also left after two rounds.
FinishTrialAtCap ==
    /\ run.pc = "loop"
    /\ ~BudgetLeft(run.current_total_cost, run.budget) \/ run.epoch >= 2
    /\ run' = [run EXCEPT
                 !.pc = "done",
                 !.regret_for_run = XSub(run.optimal_static_reward_expected,
                                         Fin(run.current_total_reward))]
    /\ UNCHANGED algoVars
    /\ UNCHANGED <<envVars, probe>>

\* The loop is left: the total reward and the regret of the run are
\* recorded.
FinishTrial ==
    /\ run.pc = "loop"
    /\ ~BudgetLeft(run.current_total_cost, run.budget)
    /\ run' = [run EXCEPT
                 !.pc = "done",
                 !.regret_for_run = XSub(run.optimal_static_reward_expected,
                                         Fin(run.current_total_reward))]
    /\ UNCHANGED algoVars
    /\ UNCHANGED <<envVars, probe>>

TrialNext == StartTrial \/ Round \/ FinishTrial

\* One trial of run_simulations.
TrialSpec == TrialInit /\ [][TrialNext]_vars

\* ------------------------------------------------------------------------
\* utils/estimators.py on exact numbers
\*
\* The fixed-point numbers above cannot hold a positive variance under
\* 1e-9.  Here a number is a fraction [n, d] in lowest terms, d > 0, and the
\* observations are measured in units of 1e-5, so that variances come in
\* units of 1e-10 and the threshold 1e-9 is VAR_FLOOR_UNITS of them.  The
\* slope is a ratio of two such quantities and has no unit.
\* ------------------------------------------------------------------------

RECURSIVE Gcd(_, _)
Gcd(a, b) == IF b = 0 THEN a ELSE Gcd(b, a % b)

QNorm(n, d) ==
    LET g == Gcd(Abs(n), Abs(d))
        sign == IF d < 0 THEN -1 ELSE 1
    IN [n |-> sign * (n \div g), d |-> sign * (d \div g)]

Q(i) == [n |-> i, d |-> 1]
QAdd(a, b) == QNorm(a.n * b.d + b.n * a.d, a.d * b.d)
QSub(a, b) == QNorm(a.n * b.d - b.n * a.d, a.d * b.d)
QMul(a, b) == QNorm(a.n * b.n, a.d * b.d)
QDiv(a, b) == QNorm(a.n * b.d, a.d * b.n)
QLt(a, b) == a.n * b.d < b.n * a.d
QMax(a, b) == IF QLt(a, b) THEN b ELSE a

\* 1e-9, in units of 1e-10.
VAR_FLOOR_UNITS == 10

exact_empirical_mean(total_sum, num_pulls) ==
    IF num_pulls = 0 THEN Q(0) ELSE QDiv(total_sum, Q(num_pulls))

exact_empirical_variance(sum_sq_values, total_sum, num_pulls) ==
    IF num_pulls < 2 THEN Q(0)
    ELSE LET mean == QDiv(total_sum, Q(num_pulls))
             mean_sq == QDiv(sum_sq_values, Q(num_pulls))
             variance == QSub(mean_sq, QMul(mean, mean))
         IN QMax(Q(0), variance)

exact_lmmse_omega(sum_X, sum_R, sum_X_sq, sum_R_sq, sum_XR, num_pulls) ==
    IF num_pulls < 2 THEN Q(0)
    ELSE LET emp_mean_X == exact_empirical_mean(sum_X, num_pulls)
             emp_mean_R == exact_empirical_mean(sum_R, num_pulls)
             emp_var_X == exact_empirical_variance(sum_X_sq, sum_X, num_pulls)
             emp_mean_XR == exact_empirical_mean(sum_XR, num_pulls)
             emp_cov_XR == QSub(emp_mean_XR, QMul(emp_mean_X, emp_mean_R))
         IN IF QLt(emp_var_X, Q(VAR_FLOOR_UNITS)) THEN Q(0)
            ELSE QDiv(emp_cov_XR, emp_var_X)

exact_lmmse_variance_reduction(sum_X, sum_R, sum_X_sq, sum_R_sq, sum_XR, num_pulls, omega) ==
    IF num_pulls < 2 THEN Q(0)
    ELSE LET emp_var_R == exact_empirical_variance(sum_R_sq, sum_R, num_pulls)
             emp_var_X == exact_empirical_variance(sum_X_sq, sum_X, num_pulls)
             reduced_variance == QSub(emp_var_R, QMul(QMul(omega, omega), emp_var_X))
         IN QMax(Q(0), reduced_variance)

\* The sums a caller hands to the estimators for the samples X, R.
RECURSIVE QSum(_)
QSum(s) == IF s = <<>> THEN Q(0) ELSE QAdd(Head(s), QSum(Tail(s)))
QProducts(s, r) == [i \in 1..Len(s) |-> QMul(s[i], r[i])]

\* Costs X (whole numbers of units) and the slopes c of R = c * X.
LmmseCosts == {<<a, b>> : a, b \in {0, 1, 10}} \cup {<<a, b, d>> : a, b, d \in {0, 1, 10}}
LmmseSlopes == {Q(-2), Q(0), QNorm(1, 2), Q(3)}

\* Samples (X, R) that lie on no line, on a line, and with a constant X, and
\* the omega values passed with them.
VarianceSamples ==
    {[X |-> <<1, 2, 3>>, R |-> <<1, 3, 2>>],
     [X |-> <<1, 2, 3>>, R |-> <<2, 4, 6>>],
     [X |-> <<0, 10>>, R |-> <<10, 0>>],
     [X |-> <<0, 10, 10>>, R |-> <<1, 0, 5>>],
     [X |-> <<3, 3, 3>>, R |-> <<6, 6, 6>>]}
Omegas == {Q(-1), Q(0), QNorm(1, 2), Q(1), Q(2)}

\* ------------------------------------------------------------------------
\* pull_arm: what the samplers make of the generator's variates
\* ------------------------------------------------------------------------

\* rng.uniform(low, high) = low + (high - low) * u for the generator's
\* u in [0, 1).
uniform(low, high, u) == low + Quot((high - low) * u, SCALE)

\* The bounded_uniform branch of pull_arm; common_factor is drawn only when
\* correlation != 0.
bounded_uniform_sample(sampler, u_X, u_R, common_factor) ==
    LET cost == uniform(sampler.min_X, sampler.max_X, u_X)
        reward == uniform(sampler.min_R, sampler.max_R, u_R)
        mix == Quot(sampler.correlation * (uniform(0, SCALE, common_factor) - SCALE \div 2), SCALE)
    IN IF sampler.correlation # 0
       THEN [cost |-> cost + Quot(mix * (sampler.max_X - sampler.min_X), SCALE),
             reward |-> reward + Quot(mix * (sampler.max_R - sampler.min_R), SCALE)]
       ELSE [cost |-> cost, reward |-> reward]

\* The heavy_tailed branch of pull_arm: pareto is rng.pareto(alpha) >= 0,
\* lognormal is rng.lognormal(mean, sigma) > 0, normal is rng.normal(0, 1),
\* drawn only when correlation != 0.
heavy_tailed_sample(sampler, pareto, lognormal, normal) ==
    LET cost == Quot((pareto + SCALE) * sampler.loc, SCALE)
        reward == lognormal
    IN IF sampler.correlation # 0
       THEN [cost |-> cost + Quot(sampler.correlation * normal, SCALE),
             reward |-> reward + Quot(sampler.correlation * normal, SCALE)]
       ELSE [cost |-> cost, reward |-> reward]

\* The entries of self._arm_samplers the model draws from, and the variates
\* the generator hands out.
BoundedSamplers ==
    {[min_X |-> 50, max_X |-> 150, min_R |-> 100, max_R |-> 300, correlation |-> c] :
        c \in {0, 50, -50}}
HeavySamplers == {[loc |-> 80, correlation |-> c] : c \in {0, 10, -10}}
UnitDraws == {0, 50, 99}
ParetoDraws == {0, 100, 400}
LognormalDraws == {1, 100, 300}
NormalDraws == {-200, 0, 200}

\* ------------------------------------------------------------------------
\* The estimators and the samplers applied to arguments
\* ------------------------------------------------------------------------

\* The two LMMSE estimators on the sums of samples with R = c * X.
EstimateLmmse ==
    \E xs \in LmmseCosts, c \in LmmseSlopes :
        LET X == [i \in 1..Len(xs) |-> Q(xs[i])]
            R == [i \in 1..Len(xs) |-> QMul(c, Q(xs[i]))]
            sum_X == QSum(X)
            sum_R == QSum(R)
            sum_X_sq == QSum(QProducts(X, X))
            sum_R_sq == QSum(QProducts(R, R))
            sum_XR == QSum(QProducts(X, R))
            omega == exact_lmmse_omega(sum_X, sum_R, sum_X_sq, sum_R_sq, sum_XR, Len(xs))
        IN /\ probe' = [op |-> "lmmse", X |-> xs, c |-> c,
                        emp_var_X |-> exact_empirical_variance(sum_X_sq, sum_X, Len(xs)),
                        omega |-> omega,
                        reduced_variance |->
                            exact_lmmse_variance_reduction(sum_X, sum_R, sum_X_sq, sum_R_sq,
                                                           sum_XR, Len(xs), omega)]
           /\ UNCHANGED <<algoVars, envVars, run>>

\* calculate_lmmse_variance_reduction_empirical on the sums of samples, with
\* an omega of the caller's choice.
ReduceVariance ==
    \E xr \in VarianceSamples, omega \in Omegas :
        LET X == [i \in 1..Len(xr.X) |-> Q(xr.X[i])]
            R == [i \in 1..Len(xr.R) |-> Q(xr.R[i])]
        IN /\ probe' = [op |-> "variance_reduction", X |-> xr.X, R |-> xr.R,
                        omega |-> omega,
                        reduced_variance |->
                            exact_lmmse_variance_reduction(QSum(X), QSum(R),
                                QSum(QProducts(X, X)), QSum(QProducts(R, R)),
                                QSum(QProducts(X, R)), Len(xr.X), omega)]
           /\ UNCHANGED <<algoVars, envVars, run>>

\* One pull of a bounded_uniform arm.
DrawBoundedUniform ==
    \E sampler \in BoundedSamplers, u_X \in UnitDraws, u_R \in UnitDraws,
       common_factor \in UnitDraws :
        /\ sampler.correlation = 0 => common_factor = 0
        /\ probe' = [op |-> "bounded_uniform", sampler |-> sampler,
                     sample |-> bounded_uniform_sample(sampler, u_X, u_R, common_factor)]
        /\ UNCHANGED <<algoVars, envVars, run>>

\* One pull of a heavy_tailed arm.
DrawHeavyTailed ==
    \E sampler \in HeavySamplers, pareto \in ParetoDraws, lognormal \in LognormalDraws,
       normal \in NormalDraws :
        /\ sampler.correlation = 0 => normal = 0
        /\ probe' = [op |-> "heavy_tailed", sampler |-> sampler,
                     sample |-> heavy_tailed_sample(sampler, pareto, lognormal, normal)]
        /\ UNCHANGED <<algoVars, envVars, run>>

ProbeInit == AlgoIdle /\ EnvIdle /\ RunIdle /\ ProbeIdle

ProbeNext == EstimateLmmse \/ ReduceVariance \/ DrawBoundedUniform \/ DrawHeavyTailed

\* The estimators and the samplers, applied to arguments one at a time.
ProbeSpec == ProbeInit /\ [][ProbeNext]_vars

\* ------------------------------------------------------------------------
\* Properties
\* ------------------------------------------------------------------------

\* C1 (cold start).  While the calls follow the pattern select_arm,
\* update_state(returned arm, ...) from construction or from a reset, the
\* i-th arm select_arm returned is arm i - 1, for each of the first K calls,
\* in every variant, for every setup, epoch and observation.
C1_ColdStartInIndexOrder ==
    trial.ok =>
        \A i \in 1..Len(trial.selected) :
            i <= num_arms => trial.selected[i] = i - 1

\* A run of K >= 2 rounds that started with a reset of a used instance.
C1_Witness ==
    /\ trial.ok
    /\ trial.after_reset
    /\ num_arms >= 2
    /\ Len(trial.selected) = num_arms
    /\ ~trial.pending

\* C2 (reset equivalence).  At every step the per-arm state of the instance
\* equals that of the twin, the instance constructed afresh at the last
\* reset and given the same calls since, and select_arm returns (or raises)
\* the same on both.
C2_ResetMatchesFresh ==
    /\ algo = twin
    /\ ret.op = "select_arm" => ret.arm = ret.twin_arm /\ ret.raised = ret.twin_raised
    /\ ret.op = "update_state" => ret.raised = ret.twin_raised

\* A select_arm past cold start, in a run of rounds that started with a reset
\* of a used instance.
C2_Witness ==
    /\ trial.ok
    /\ trial.after_reset
    /\ Len(trial.selected) > num_arms
    /\ ret.op = "select_arm"

\* C3 (environment reset reproducibility).  After a reset, each pull returns
\* the sample the same pull returns on an environment constructed afresh
\* with the same arguments, seed included.
C3_ResetReplaysSamples ==
    (env_ret.op = "pull_arm" /\ env_ret.raised = "none" /\ fresh.status = "constructed")
        => env_ret.sample = env_ret.fresh_sample

\* C4.  update_state with an index outside 0 .. K-1, the negative ones
\* included, raises and changes the statistics of no arm.
C4_OutOfRangeUpdateRejected ==
    (ret.op = "update_state" /\ ~(0 <= ret.arm /\ ret.arm < num_arms))
        => ret.raised # "none" /\ ret.touched = {}

\* C5.  pull_arm with an index outside 0 .. K-1, the negative ones included,
\* raises ValueError and returns no sample, and the generator is where the
\* pulls with an index in 0 .. K-1 alone have taken it.
C5_FailedPullLeavesStream ==
    /\ env.status = "constructed" => env = shadow
    /\ (env_ret.op = "pull_arm" /\ ~(0 <= env_ret.arm /\ env_ret.arm < env_args.num_arms))
          => env_ret.raised = "ValueError" /\ env_ret.sample = NoSample
    /\ (env_ret.op = "pull_arm" /\ 0 <= env_ret.arm /\ env_ret.arm < env_args.num_arms)
          => env_ret.raised = "none" /\ env_ret.sample # NoSample

\* A pull that returned a sample after pulls with a negative and with a too
\* high index had raised.
C5_Witness ==
    /\ env_ret.op = "pull_arm"
    /\ env_ret.raised = "none"
    /\ env_ret.failed = {"negative", "high"}
    /\ env.rng.pos > Draws(env_args.arm_configs[env_ret.arm + 1])

\* C6.  An environment that was constructed has mean_X > 0 in every arm.
C6_NonPositiveCostRejected ==
    env.status = "constructed" =>
        \A k \in 1..Len(env_args.arm_configs) : env_args.arm_configs[k].mean_X > 0

\* C7.  The constructor raises the "not positive semi-definite" ValueError
\* exactly when a gaussian arm it gets to has a matrix that is not positive
\* semi-definite.
C7_RejectedIffNotPSD ==
    (env.status # "unbuilt"
     /\ BaseInitError(env_args.num_arms, env_args.arm_configs) = "none")
        => ((env.status = "ValueError: not positive semi-definite")
            <=> \E k \in ArmsValidated(env_args.arm_configs) :
                    LET config == env_args.arm_configs[k]
                    IN /\ config.has_means
                       /\ config.type = "gaussian"
                       /\ ~IsPSD(config.var_X, config.var_R, config.cov_XR))

\* C8.  select_arm raises nothing and returns an arm index, in every variant
\* and for every algorithm_params, a zero or negative b_min_cost included.
C8_SelectArmNeverFails ==
    ret.op = "select_arm" => ret.raised = "none" /\ ret.arm \in Arms

\* The means of arm k as its class keeps them.
RewardMean(st, k) ==
    IF UsesSums THEN XDiv(Fin(st.total_rewards[k]), Num(st.arm_pulls[k]))
    ELSE NpMean(st.arm_samples_R[k])

CostMean(st, k) ==
    IF UsesSums THEN XDiv(Fin(st.total_costs[k]), Num(st.arm_pulls[k]))
    ELSE NpMean(st.arm_samples_X[k])

\* max(0, reward_mean) / max(b_min_cost, cost_mean) for finite means and a
\* positive floor, as a finite number.
FlooredRatio(reward_mean, cost_mean) ==
    LET num == IF reward_mean.v > 0 THEN reward_mean.v ELSE 0
        den == IF cost_mean.v > algorithm_params.b_min_cost
               THEN cost_mean.v ELSE algorithm_params.b_min_cost
    IN Fin(Quot(num * SCALE, den))

\* The median over the groups of UCB_M1 of each group's floored ratio.
RECURSIVE GroupFlooredRatios(_, _, _, _, _)
GroupFlooredRatios(samples_X, samples_R, j, m, group_size) ==
    IF j >= m THEN <<>>
    ELSE <<FlooredRatio(NpMean(M1_group(samples_R, j, group_size)),
                        NpMean(M1_group(samples_X, j, group_size)))>>
         \o GroupFlooredRatios(samples_X, samples_R, j + 1, m, group_size)

MedianOfGroupRatios(st, k, n) ==
    NpMedian(GroupFlooredRatios(st.arm_samples_X[k], st.arm_samples_R[k], 0,
                                M1_m(st, k, n), M1_group_size(st, k, n)))

\* The median over the groups of UCB_M1 of the groups' reward means.
MedianRewardMean(st, k, n) ==
    NpMedian(M1_group_means_X(st.arm_samples_R[k], 0,
                              M1_m(st, k, n), M1_group_size(st, k, n)))

FailingArms(st, n) == {k \in DOMAIN st.arm_pulls : ~stability_condition_met(st, k, n)}

\* C10.  Past cold start, when an arm fails its stability guard at the epoch
\* passed, select_arm returns the lowest-index arm that fails it.
C10_GuardFailureForcesArm ==
    (ret.op = "select_arm" /\ Unpulled(algo) = {} /\ FailingArms(algo, ret.epoch) # {})
        => /\ ret.raised = "none"
           /\ ret.arm \in FailingArms(algo, ret.epoch)
           /\ \A j \in FailingArms(algo, ret.epoch) : ret.arm <= j

\* The same under algorithm_params in range (a positive floor, alpha and L
\* not negative): the part of C10 that does not rest on what a zero or
\* negative constant does to the scores.
GuardFailureForcesArmInRange ==
    (ret.op = "select_arm" /\ Unpulled(algo) = {} /\ FailingArms(algo, ret.epoch) # {}
     /\ InRangeParams(algorithm_params))
        => /\ ret.raised = "none"
           /\ ret.arm \in FailingArms(algo, ret.epoch)
           /\ \A j \in FailingArms(algo, ret.epoch) : ret.arm <= j

\* The scores select_arm formed in its last call, past cold start.
Scored == ret.op = "select_arm" /\ ret.raised = "none" /\ Unpulled(algo) = {}
LastScores == ucb_values(algo, ret.epoch)

\* C11 (stable argmax).  Past cold start, the arm select_arm returns holds a
\* score no other arm exceeds, and every arm of lower index holds a strictly
\* smaller score; this covers several arms sharing the score +infinity.
C11_StableArgmax ==
    Scored =>
        /\ \A j \in 1..num_arms : XGe(LastScores[ret.arm + 1], LastScores[j])
        /\ \A j \in 1..ret.arm : XLt(LastScores[j], LastScores[ret.arm + 1])

\* The same, for the calls in which every score is a number.
C11_StableArgmaxOfNumbers ==
    (Scored /\ \A j \in 1..num_arms : ~IsNaN(LastScores[j])) => C11_StableArgmax

\* The cumulative cost before round i of the trial (i = 1 is the first).
CostBefore(i) == SeqSum(SubSeq(run.costs, 1, i - 1))

\* C12 (budget gate).  Every round the trial started found the cumulative
\* cost at most the budget; when the trial has ended the cumulative cost
\* exceeds the budget; the totals are the sums over all the rounds, the last
\* one included.
C12_BudgetGate ==
    /\ run.current_total_cost = SeqSum(run.costs)
    /\ run.current_total_reward = SeqSum(run.rewards)
    /\ \A i \in 1..Len(run.costs) : CostBefore(i) <= run.budget
    /\ run.pc = "done" => run.current_total_cost > run.budget

\* A trial ended whose last round started with the cumulative cost equal to
\* the budget and brought a reward.
C12_Witness ==
    /\ run.pc = "done"
    /\ Len(run.costs) >= 2
    /\ CostBefore(Len(run.costs)) = run.budget
    /\ run.rewards[Len(run.rewards)] # 0

\* The least cost sampled so far in the trial.
LeastCost == CHOOSE c \in {run.costs[i] : i \in 1..Len(run.costs)} :
                 \A i \in 1..Len(run.costs) : c <= run.costs[i]

\* C13 (trial termination).  While every cost sampled is at least c > 0, the
\* trial has started at most floor(budget / c) + 1 rounds.
C13_RoundsBounded ==
    (run.costs # <<>> /\ LeastCost > 0) =>
        run.epoch <= (run.budget \div LeastCost) + 1

\* A trial of positive costs that ended after exactly floor(budget / c) + 1
\* rounds, fewer than the model would follow.
C13_Witness ==
    /\ run.pc = "done"
    /\ run.costs # <<>>
    /\ LeastCost > 0
    /\ run.epoch = (run.budget \div LeastCost) + 1
    /\ run.epoch >= 3
    /\ run.epoch < MaxRounds

\* The arms of positive expected cost, and those of them whose ratio
\* mean_R / mean_X no other exceeds (compared without dividing).
PositiveCostArms == {k \in 1..env_args.num_arms : env_args.arm_configs[k].mean_X > 0}
BestRateArms ==
    {k \in PositiveCostArms :
        \A j \in PositiveCostArms :
            env_args.arm_configs[k].mean_R * env_args.arm_configs[j].mean_X
                >= env_args.arm_configs[j].mean_R * env_args.arm_configs[k].mean_X}
LowestBestRateArm == CHOOSE k \in BestRateArms : \A j \in BestRateArms : k <= j

\* C16 (regret).  With an arm of positive expected cost, the regret recorded
\* for a trial is r* x budget - total reward, r* the greatest mean_R / mean_X
\* over the arms of positive expected cost, and optimal_arm_index is the
\* lowest index attaining r*.
C16_RegretOfTrial ==
    (run.pc = "done" /\ PositiveCostArms # {}) =>
        LET best == env_args.arm_configs[LowestBestRateArm]
            r_star == XDiv(Fin(best.mean_R), Fin(best.mean_X))
        IN /\ run.regret_for_run =
                  XSub(XMul(r_star, Fin(run.budget)), Fin(run.current_total_reward))
           /\ optimal_arm_index(env_args.arm_configs) = LowestBestRateArm - 1

\* A trial recorded with two arms sharing r*, and one recorded beside an arm
\* of non-positive expected cost.
C16_Witness ==
    /\ run.pc = "done"
    /\ run.rewards # <<>>
    /\ \/ Cardinality(BestRateArms) >= 2
       \/ (PositiveCostArms # {} /\ PositiveCostArms # 1..env_args.num_arms)

\* C17 (seeded trials).  The trial's environment is constructed with an
\* explicit seed, and the same trial of a second execution draws from a
\* generator seeded alike.
C17_TrialsSeeded ==
    run.pc \in {"loop", "done"} =>
        /\ env_args.seed # NoSeed
        /\ env.rng.seed = shadow.rng.seed

\* The statistics of arm k in st.
ArmState(st, k) ==
    <<st.arm_pulls[k], st.total_costs[k], st.total_rewards[k], st.sum_sq_costs[k],
      st.sum_sq_rewards[k], st.arm_samples_X[k], st.arm_samples_R[k]>>

\* C14 (frame of update_state).  A step in which update_state(k, cost,
\* reward) with 0 <= k < K returns adds 1 to arm k's pull count, adds cost
\* and reward to its sums (UCB_B1, UCB_B2) and their squares to its sums of
\* squares (UCB_B2), appends them to its buffers (UCB_B2C, UCB_M1), and
\* leaves every other arm as it was.
UpdateFrame ==
    (ret'.op = "update_state" /\ ret'.raised = "none" /\ ret'.arm \in Arms) =>
        LET k == ret'.arm
        IN /\ algo'.arm_pulls[k] = algo.arm_pulls[k] + 1
           /\ variant \in {"UCB_B1", "UCB_B2"} =>
                 /\ algo'.total_costs[k] = algo.total_costs[k] + ret'.cost
                 /\ algo'.total_rewards[k] = algo.total_rewards[k] + ret'.reward
           /\ variant = "UCB_B2" =>
                 /\ algo'.sum_sq_costs[k] =
                        algo.sum_sq_costs[k] + (ret'.cost * ret'.cost) \div SCALE
                 /\ algo'.sum_sq_rewards[k] =
                        algo.sum_sq_rewards[k] + (ret'.reward * ret'.reward) \div SCALE
           /\ variant \in {"UCB_B2C", "UCB_M1"} =>
                 /\ algo'.arm_samples_X[k] = algo.arm_samples_X[k] \o <<ret'.cost>>
                 /\ algo'.arm_samples_R[k] = algo.arm_samples_R[k] \o <<ret'.reward>>
           /\ \A j \in Arms \ {k} : ArmState(algo', j) = ArmState(algo, j)

C14_UpdateTouchesOneArm == [][UpdateFrame]_vars

\* An update_state returned on an instance of two arms that both hold
\* observations, and changed arm 1 only.
C14_Witness ==
    /\ ret.op = "update_state"
    /\ ret.raised = "none"
    /\ ret.arm = 1
    /\ ret.touched = {1}
    /\ algo.arm_pulls[0] > 0
    /\ algo.arm_pulls[1] >= 2

\* C15 (select_arm is read-only).  A select_arm step leaves the statistics
\* as they were, and a select_arm that follows a select_arm with the same
\* epoch returns, or raises, the same.
SelectFrame ==
    ret'.op = "select_arm" =>
        /\ algo' = algo
        /\ (ret.op = "select_arm" /\ ret.epoch = ret'.epoch) =>
               (ret'.arm = ret.arm /\ ret'.raised = ret.raised)

C15_SelectArmReadsOnly == [][SelectFrame]_vars

\* select_arm returned past cold start from a call outside the driver's
\* pattern (the call before it was a select_arm or an update_state of
\* another arm).
C15_Witness ==
    /\ ret.op = "select_arm"
    /\ ret.raised = "none"
    /\ ~trial.ok
    /\ Unpulled(algo) = {}

\* C18 (LMMSE exactness).  For n >= 2 samples with R = c * X and a non-zero
\* empirical variance of X, the slope estimator returns c and the variance
\* reduction with that slope is 0.
C18_LmmseExact ==
    (probe.op = "lmmse" /\ probe.emp_var_X # Q(0)) =>
        /\ probe.omega = probe.c
        /\ probe.reduced_variance = Q(0)

\* The same for an empirical variance of X of at least 1e-9.
LmmseExactAboveFloor ==
    (probe.op = "lmmse" /\ ~QLt(probe.emp_var_X, Q(VAR_FLOOR_UNITS))) =>
        /\ probe.omega = probe.c
        /\ probe.reduced_variance = Q(0)

\* C19 (bounded_uniform range).  The cost and the reward of a pull of a
\* bounded_uniform arm lie in [min_X, max_X] and [min_R, max_R].
C19_BoundedUniformInRange ==
    probe.op = "bounded_uniform" =>
        /\ probe.sampler.min_X <= probe.sample.cost
        /\ probe.sample.cost <= probe.sampler.max_X
        /\ probe.sampler.min_R <= probe.sample.reward
        /\ probe.sample.reward <= probe.sampler.max_R

\* The same for the arms with correlation 0.
BoundedUniformInRangeUnmixed ==
    (probe.op = "bounded_uniform" /\ probe.sampler.correlation = 0) =>
        /\ probe.sampler.min_X <= probe.sample.cost
        /\ probe.sample.cost <= probe.sampler.max_X
        /\ probe.sampler.min_R <= probe.sample.reward
        /\ probe.sample.reward <= probe.sampler.max_R

\* C20 (heavy_tailed floor).  The cost of a pull of a heavy_tailed arm is at
\* least loc_pareto_X and the reward is at least 0.
C20_HeavyTailedFloor ==
    probe.op = "heavy_tailed" =>
        /\ probe.sample.cost >= probe.sampler.loc
        /\ probe.sample.reward >= 0

\* The same for the arms with correlation 0.
HeavyTailedFloorUnmixed ==
    (probe.op = "heavy_tailed" /\ probe.sampler.correlation = 0) =>
        /\ probe.sample.cost >= probe.sampler.loc
        /\ probe.sample.reward >= 0

\* The width select_arm gives arm k at epoch n.
WidthOf(st, k, n) == ConfidenceWidth(st, k, n, RateEstimate(st, k, n))

\* eta >= theta_plus * (lambda_val - 1) / lambda_val, theta_plus the floored
\* cost-mean estimate.
EtaOverFlooredBound(st, k, n) ==
    XGe(Eta(st, k, n), GuardBound(effective_theta1(st, k, n)))

\* C21 (one guard for the four variants).  Past cold start, the width of an
\* arm is +infinity exactly when its eta is at least
\* max(b_min_cost, cost-mean estimate) * 0.28 / 1.28, in UCB_B1 as in the
\* other three; so an arm of UCB_B1 with a cost mean under the floor and an
\* eta under b_min_cost * 0.28 / 1.28 has a finite width.  Stated for
\* algorithm_params in range (b_min_cost > 0, alpha >= 0, L >= 0).
C21_WidthInfiniteIffEtaOverBound ==
    (Unpulled(algo) = {} /\ InRangeParams(algorithm_params)) =>
        \A k \in Arms, n \in 1..MaxEpoch :
            (WidthOf(algo, k, n) = PInf) <=> EtaOverFlooredBound(algo, k, n)

\* The same for UCB_B2, UCB_B2C and UCB_M1.
WidthInfiniteIffEtaOverBoundElsewhere ==
    variant # "UCB_B1" => C21_WidthInfiniteIffEtaOverBound

\* In UCB_B1 the width is +infinity exactly when the cost mean is under the
\* floor or eta is at least cost mean * 0.28 / 1.28.
WidthInfiniteInB1 ==
    (variant = "UCB_B1" /\ Unpulled(algo) = {} /\ InRangeParams(algorithm_params)) =>
        \A k \in Arms, n \in 1..MaxEpoch :
            (WidthOf(algo, k, n) = PInf) <=>
                \/ XLt(CostMeanEstimate(algo, k, n), b_min_cost)
                \/ XGe(Eta(algo, k, n), GuardBound(CostMeanEstimate(algo, k, n)))

\* floor(3.5 * alpha * ln(n)) + 1, the number of groups asked for at epoch n.
GroupsAskedFor(n) ==
    (XMul(XMul(Fin(M_GROUPS_FACTOR), alpha), XLog(n)).v \div SCALE) + 1

\* Arm k of UCB_M1 holds samples, but fewer than the groups asked for.
TooFewForGroups(st, k, n) ==
    /\ variant = "UCB_M1"
    /\ InRangeParams(algorithm_params)
    /\ st.arm_pulls[k] >= 1
    /\ st.arm_pulls[k] < GroupsAskedFor(n)

\* The rates max(0, R_i) / max(b_min_cost, X_i) of the single samples.
RECURSIVE SampleRates(_, _)
SampleRates(samples_X, samples_R) ==
    IF samples_X = <<>> THEN <<>>
    ELSE <<RateValue(Fin(Head(samples_R)), Fin(Head(samples_X)))>>
         \o SampleRates(Tail(samples_X), Tail(samples_R))

\* C22 (fallback of the median estimator).  In UCB_M1, for an arm with fewer
\* pulls than floor(3.5 * alpha * ln(n)) + 1, _get_median_rate_estimator
\* returns max(0, mean of all its rewards) / max(b_min_cost, mean of all its
\* costs).
C22_FallsBackToPlainMean ==
    \A k \in Arms, n \in 1..MaxEpoch :
        TooFewForGroups(algo, k, n) =>
            _get_median_rate_estimator(algo, k, n) =
                RateValue(NpMean(algo.arm_samples_R[k]), NpMean(algo.arm_samples_X[k]))

\* What it returns instead: the median of the rates of the single samples.
FewSamplesGiveMedianOfSampleRates ==
    \A k \in Arms, n \in 1..MaxEpoch :
        TooFewForGroups(algo, k, n) =>
            _get_median_rate_estimator(algo, k, n) =
                NpMedian(SampleRates(algo.arm_samples_X[k], algo.arm_samples_R[k]))

\* C23 (the driver's calls).  A round of a trial calls select_arm with the
\* epoch 1 + the pulls the policy has counted and with the sum of the costs
\* passed to update_state so far, then pull_arm and update_state with the
\* arm select_arm returned, and the policy counts one pull more; a trial
\* enters its loop with epoch 0, cost 0 and no pull counted.
RoundCalls ==
    /\ Len(run'.costs) = Len(run.costs) + 1 =>
          /\ run'.select_epoch = 1 + TotalPulls(algo)
          /\ run'.select_epoch = 1 + Len(run.costs)
          /\ run'.select_cost = SeqSum(run.costs)
          /\ run'.select_cost = ReportedCost(algo)
          /\ run'.chosen_arm \in Arms
          /\ run'.pulled_arm = run'.chosen_arm
          /\ run'.updated_arms = {run'.chosen_arm}
          /\ TotalPulls(algo') = TotalPulls(algo) + 1
    /\ (run.pc # "loop" /\ run'.pc = "loop") =>
          /\ run'.epoch = 0
          /\ run'.current_total_cost = 0
          /\ TotalPulls(algo') = 0

C23_DriverCallsInStep == [][RoundCalls]_vars

\* The third round, past cold start, of a trial that followed another one.
C23_Witness ==
    /\ run.run_idx >= 1
    /\ run.select_epoch = 3
    /\ Len(run.costs) = 3
    /\ run.current_total_cost > 0
    /\ Unpulled(algo) = {}

\* The samples R_i - omega * X_i of the last variance reduction, and their
\* empirical variance (mean of the squares less the square of the mean).
Residuals ==
    [i \in 1..Len(probe.X) |-> QSub(Q(probe.R[i]), QMul(probe.omega, Q(probe.X[i])))]
ResidualVariance ==
    exact_empirical_variance(QSum(QProducts(Residuals, Residuals)), QSum(Residuals),
                             Len(probe.X))

\* The empirical variance of X and covariance of X and R of those samples.
ProbedVarX ==
    LET X == [i \in 1..Len(probe.X) |-> Q(probe.X[i])]
    IN exact_empirical_variance(QSum(QProducts(X, X)), QSum(X), Len(probe.X))
ProbedCovXR ==
    LET X == [i \in 1..Len(probe.X) |-> Q(probe.X[i])]
        R == [i \in 1..Len(probe.R) |-> Q(probe.R[i])]
    IN QSub(QDiv(QSum(QProducts(X, R)), Q(Len(probe.X))),
            QMul(QDiv(QSum(X), Q(Len(probe.X))), QDiv(QSum(R), Q(Len(probe.X)))))

\* C24 (variance of the residual).  For n >= 2 samples and any omega,
\* calculate_lmmse_variance_reduction_empirical returns the empirical
\* variance of R - omega * X.
C24_VarianceOfResidual ==
    probe.op = "variance_reduction" => probe.reduced_variance = ResidualVariance

\* The same when omega is the empirical slope Cov(X, R) / Var(X), or when it
\* is 0 and X and R have no covariance.
VarianceOfResidualAtSlope ==
    (probe.op = "variance_reduction" /\ QMul(probe.omega, ProbedVarX) = ProbedCovXR)
        => probe.reduced_variance = ResidualVariance

\* What select_arm returns on the statistics st, for every epoch.
select_arm_results(st) == [n \in 1..MaxEpoch |-> select_arm(st, ReportedCost(st), n)]

\* C25 (no shared mutable state).  A call of update_state, select_arm or
\* reset on one of two instances built from the same arm_configs and
\* algorithm_params leaves the other instance's per-arm statistics, and what
\* select_arm returns on it, as they were, and changes neither arm_configs
\* nor algorithm_params.
PairFrame ==
    /\ ret'.on = "algo" =>
          (peer' = peer /\ select_arm_results(peer') = select_arm_results(peer))
    /\ ret'.on = "peer" =>
          (algo' = algo /\ select_arm_results(algo') = select_arm_results(algo))
    /\ arm_configs' = arm_configs
    /\ algorithm_params' = algorithm_params

C25_InstancesShareNothing == [][PairFrame]_vars

\* Past cold start of both instances, which hold different observations, an
\* update_state on one of them returned.
C25_Witness ==
    /\ ret.op = "update_state"
    /\ ret.on = "peer"
    /\ ret.raised = "none"
    /\ num_arms >= 2
    /\ Unpulled(peer) = {}
    /\ TotalPulls(algo) >= 1
    /\ algo # peer

\* max(1, min(floor(3.5 * alpha * ln(n)) + 1, T)) for T pulls at epoch n.
GroupsFormed(T, n) ==
    LET asked == GroupsAskedFor(n)
        capped == IF asked < T THEN asked ELSE T
    IN IF capped > 1 THEN capped ELSE 1

\* samples[first], ..., samples[first + size - 1], in arrival order.
Consecutive(samples, first, size) == [i \in 1..size |-> samples[first + i - 1]]

NonNegativeMoments ==
    /\ algorithm_params.M_X >= 0
    /\ algorithm_params.M_R >= 0
    /\ algorithm_params.omega_bar >= 0
    /\ \A k \in Arms :
          Cfg(k).var_X >= 0 /\ Cfg(k).var_R >= 0 /\ Cfg(k).M_X >= 0 /\ Cfg(k).M_R >= 0

\* The width of arm k is not negative, and its score not below its rate
\* estimate, at every epoch.
WidthNonNegative(k) ==
    \A n \in 1..MaxEpoch :
        /\ XGe(WidthOf(algo, k, n), Zero)
        /\ XGe(ucb_value(algo, k, n), RateEstimate(algo, k, n))

\* C27 (optimism).  With alpha >= 0, L >= 0, b_min_cost > 0 and bounds and
\* variances that are not negative, past cold start the width of every arm
\* is at least 0 and its score at least its rate estimate, in the four
\* classes.
C27_WidthNeverNegative ==
    (Unpulled(algo) = {} /\ InRangeParams(algorithm_params) /\ NonNegativeMoments) =>
        \A k \in Arms : WidthNonNegative(k)

\* The same for UCB_B2 and UCB_B2C, and for the arms of UCB_B1 and UCB_M1
\* whose slope omega_k does not exceed the rate estimate at any epoch.
WidthNonNegativeUnderSlope ==
    (Unpulled(algo) = {} /\ InRangeParams(algorithm_params) /\ NonNegativeMoments) =>
        \A k \in Arms :
            (variant \in {"UCB_B1", "UCB_M1"} =>
                \A n \in 1..MaxEpoch : XGe(RateEstimate(algo, k, n), omega_k(k)))
            => WidthNonNegative(k)

\* The costs of the last `count` rounds of the trial are all <= 0.
LastCostsNotPositive(count) ==
    /\ Len(run.costs) >= count
    /\ \A i \in (Len(run.costs) - count + 1)..Len(run.costs) : run.costs[i] <= 0

\* C28 (the budget is the only way out).  A trial ends only with the
\* cumulative cost above the budget, so only after a round of positive cost,
\* whatever the number of rounds so far; after a round of cost <= 0 the
\* cumulative cost is still at most the budget and the trial is still in its
\* loop, unless a call raised: a trial whose costs stay <= 0 goes on.
C28_OnlyBudgetEndsTrial ==
    /\ run.pc = "done" => run.current_total_cost > run.budget
    /\ (run.pc = "done" /\ run.costs # <<>>) => run.costs[Len(run.costs)] > 0
    /\ (LastCostsNotPositive(1) /\ run.pc # "crashed") =>
          (run.pc = "loop" /\ run.current_total_cost <= run.budget)

\* A trial still in its loop after as many rounds as the model follows, the
\* last three of them of cost <= 0, one of these negative.
C28_Witness ==
    /\ run.pc = "loop"
    /\ run.epoch = MaxRounds
    /\ run.current_total_cost <= run.budget
    /\ LastCostsNotPositive(3)
    /\ \E i \in 1..Len(run.costs) : run.costs[i] < 0

\* Values of current_total_cost: what the driver would pass, and one far
\* above any budget.
CostArguments(st) == {ReportedCost(st), 100000}

\* C29 (current_total_cost is not read).  On the same statistics and at the
\* same epoch, select_arm returns (or raises) with any current_total_cost
\* what it returns with a current_total_cost of 0, in cold start and past it,
\* in the four classes.
C29_TotalCostIgnored ==
    \A n \in 1..MaxEpoch, c \in CostArguments(algo) :
        select_arm(algo, c, n) = select_arm(algo, 0, n)

\* select_arm returned past cold start on an instance that has been reported
\* a positive total cost, and it returned an arm other than arm 0.
C29_Witness ==
    /\ ret.op = "select_arm"
    /\ ret.raised = "none"
    /\ Unpulled(algo) = {}
    /\ ReportedCost(algo) > 0
    /\ ret.arm # 0

\* C30 (scores need a pull of every arm).  In every state reached through
\* update_state, select_arm and reset, a reset of a used instance included,
\* the arms select_arm forms a rate estimate and a width for are arms of an
\* instance whose every arm has a pull count >= 1; the divisor T_k of the
\* means is then >= 1, the sample lists of the classes that keep them hold
\* T_k >= 1 entries each, and every group UCB_M1 averages is non-empty.
C30_ScoresNeedEveryArmPulled ==
    \A n \in 1..MaxEpoch : \A k \in ScoredArms(algo, n) :
        /\ \A j \in Arms : algo.arm_pulls[j] >= 1
        /\ UsesSamples =>
              /\ Len(algo.arm_samples_X[k]) = algo.arm_pulls[k]
              /\ Len(algo.arm_samples_R[k]) = algo.arm_pulls[k]
        /\ variant = "UCB_M1" =>
              \A j \in 0..(M1_m(algo, k, n) - 1) :
                  /\ M1_group(algo.arm_samples_X[k], j, M1_group_size(algo, k, n)) # <<>>
                  /\ M1_group(algo.arm_samples_R[k], j, M1_group_size(algo, k, n)) # <<>>

\* The statistics never disagree with the pull counts, scored or not: an arm
\* without a pull has empty sample lists and zero sums.
PullCountsMatchStatistics ==
    \A k \in Arms :
        /\ algo.arm_pulls[k] >= 0
        /\ UsesSamples =>
              /\ Len(algo.arm_samples_X[k]) = algo.arm_pulls[k]
              /\ Len(algo.arm_samples_R[k]) = algo.arm_pulls[k]
        /\ (UsesSums /\ algo.arm_pulls[k] = 0) =>
              (algo.total_costs[k] = 0 /\ algo.total_rewards[k] = 0)

\* select_arm scored both arms of an instance that was reset after use and
\* then given a pull of each arm again.
C30_Witness ==
    /\ ret.op = "select_arm"
    /\ trial.after_reset
    /\ num_arms >= 2
    /\ \E n \in 1..MaxEpoch : ScoredArms(algo, n) = Arms
    /\ \A k \in Arms : algo.arm_pulls[k] = 1

\* select_arm returned the unpulled second arm of an instance that was reset
\* after use and has since been given a pull of its first arm: no arm scored.
ColdStartAfterResetScoresNothing ==
    /\ ret.op = "select_arm"
    /\ trial.after_reset
    /\ Unpulled(algo) = {1}
    /\ ret.arm = 1
    /\ \A n \in 1..MaxEpoch : ScoredArms(algo, n) = {}

====
